---- MODULE Spec2Model ----
(***************************************************************************)
(* A model of the AI-HR conversation engine (github.com/d1nch8g/aihr):     *)
(*   - the bounded conversation history of engine.Engine,                  *)
(*   - NewEngine with any configuration, followed by addToHistory,         *)
(*   - the history under historyMutex, statement by statement,             *)
(*   - the run-state guard and main loop of Engine.Start, with Engine.Stop,*)
(*   - the frame reframing goroutine of playTTSResponse (main.go),         *)
(*   - the silence-timeout loop of Engine.captureUserInput,                *)
(*   - the capture and recognition goroutines of a listening phase,        *)
(*   - the turns of processConversationCycle with speakResponse.           *)
(* Each part has its own specification over the shared variables; the      *)
(* variables a specification does not use stay at their initial values.    *)
(***************************************************************************)
EXTENDS Integers, Sequences, FiniteSets, TLC

VARIABLES
    \* ---- Engine fields (engine.go:34-47)
    config,         \* e.config, as NewEngine left it
    history,        \* e.history: a Go slice [arr, off, len]
    \* ---- history clients (callers of the exported API)
    snapshot,       \* the last value GetHistory returned
    appended,       \* the entries appended since the last ClearHistory
    nOps,           \* number of history operations performed
    held,           \* the slice a caller got from GetHistory and still holds
    histLog,        \* what happened to the history since that GetHistory
    \* ---- Engine run state and owned collaborators (engine.go:34-47)
    isRunning,      \* e.isRunning
    runningMutex,   \* e.runningMutex: "free" or the caller holding it
    audioStreamer,  \* e.audioStreamer: [initialized, open] acquisition counts
    soundPlayer,    \* e.soundPlayer: [initialized] acquisition count
    sttClient,      \* e.sttClient: "open" or "closed"
    ttsClient,      \* e.ttsClient: "open" or "closed"
    \* ---- the goroutines calling Engine.Start
    pc,             \* where each caller is inside Start
    ctxDone,        \* whether the ctx of each caller's Start call is cancelled
    defers,         \* each call's stack of deferred functions
    startResult,    \* what each caller's last Start call returned
    userInput,      \* the turn's local userInput
    aiResponse,     \* the turn's local aiResponse
    cycleErr,       \* the error processConversationCycle returned
    nCalls,         \* Start calls made so far by each caller
    nTurns,         \* turns recorded so far (the clock of time.Now)
    \* ---- observations of the Start calls
    guardOutcome,   \* how each call left the run-state guard
    sawRunning,     \* the calls past the guard when each call decided
    concurrent,     \* the calls each call overlapped with
    callLog,        \* the turn steps each call has begun
    \* ---- the goroutine calling Engine.Stop
    stopResult,     \* the errors the last Stop call reported
    stopPending,    \* Stop was called on a Running engine that still runs
    closeLog,       \* the Close calls the last Stop call made, in order
    \* ---- playTTSResponse (main.go:197-297)
    ttsAudioData,       \* channel synthesizer -> reframer: [buf, closed]
    playbackAudioData,  \* channel reframer -> player: [buf, closed]
    ttsCtxDone,         \* ttsCtx is cancelled or timed out
    playCtxDone,        \* playCtx is cancelled
    audioBuffer,        \* the reframing goroutine's audioBuffer
    rfPc,               \* where the reframing goroutine is
    synthPc,            \* where SynthesizeToStreamWithContext is
    playerPc,           \* where PlayStream is
    mainPc,             \* where playTTSResponse itself is
    \* ---- observations of the audio pipeline
    produced,       \* the chunks the synthesizer put on ttsAudioData
    received,       \* the bytes the reframer took from ttsAudioData
    emitted,        \* the frames the reframer put on playbackAudioData
    played,         \* the frames the player took from playbackAudioData
    rfCancelled,    \* the reframer returned through a playCtx.Done case
    \* ---- Engine.captureUserInput (engine.go:169-224)
    capPc,          \* where captureUserInput is
    capCtxDone,     \* the caller's ctx is cancelled
    captureCtxDone, \* captureCtx is cancelled
    sttCtxDone,     \* sttCtx is cancelled
    sttResults,     \* channel recognizer -> captureUserInput: [buf, closed]
    transcription,  \* the strings.Builder, as a sequence of characters
    silenceTimer,   \* silenceTimer: [active, deadline]
    timerC,         \* number of values buffered in silenceTimer.C
    now,            \* the monotonic clock, in seconds
    recogPc,        \* where the recognizer goroutine is
    \* ---- observations of the listening phase
    sentFrags,      \* the fragments the recognizer put on sttResults
    recvFrags,      \* the fragments captureUserInput took from sttResults
    lastAccept,     \* when the silence countdown was last (re)started
    firedAt,        \* when silenceTimer last fired
    capResult,      \* what captureUserInput returned, how and when
    \* ---- one goroutine in the loop of Engine.Start, turn by turn
    turnPc,         \* where the loop is inside Start / processConversationCycle
    turnCtxDone,    \* the ctx given to Start is cancelled
    turnInput,      \* the turn's userInput, a sequence of characters
    turnReply,      \* the turn's aiResponse
    turnErr,        \* the error processConversationCycle returned
    closerPc,       \* where the goroutine of speakResponse (247-252) is
    panicked,       \* a goroutine panicked: the process is gone
    loopResult,     \* what Start returned
    nRounds,        \* turns begun so far
    \* ---- observations of the current turn
    turnLog,        \* the collaborator calls and appends the turn made
    turnOutcome,    \* how the turn ended
    turnBase,       \* the history appends made before the turn began
    genCalls,       \* the calls of gptClient.Complete the turn made
    \* ---- the history under its lock, statement by statement
    historyMutex,   \* e.historyMutex: [writer, readers]
    wPc,            \* where the goroutine calling addToHistory is
    wEntry,         \* the entry it is adding
    nWrites,        \* addToHistory calls made so far
    rPc,            \* where each reading goroutine is
    rKind,          \* the method each reading goroutine is in
    rLen,           \* the length each reader has read
    rResult,        \* the entries each reader's last call gave it
    nReads,         \* calls each reader has made
    \* ---- observations of the locked history
    committed,      \* the history after the last whole addToHistory
    rWindow,        \* the committed histories current during each read
    \* ---- the goroutines of a listening phase (engine.go:169-193)
    audioData,      \* channel capture -> recognition: [buf, closed]
    micPc,          \* where the goroutine running StartCapture is
    feedPc,         \* where the goroutine running StreamRecognize is
    fwdPc,          \* where the goroutine forwarding results (stt.go:237) is
    \* ---- observations of the audio capture
    nCaptured,      \* chunks read from the device, numbered 1, 2, ...
    dropped,        \* the chunks dropped, with the queue at that moment
    fed             \* the chunks StreamRecognize took from audioData

histVars == <<config, history, snapshot, appended, nOps, held, histLog>>

engineVars == <<isRunning, runningMutex, audioStreamer, soundPlayer,
                sttClient, ttsClient>>

startVars == <<pc, ctxDone, defers, startResult, userInput, aiResponse,
               cycleErr, nCalls, nTurns, guardOutcome, sawRunning, concurrent,
               callLog>>

stopVars == <<stopResult, stopPending, closeLog>>

pipeVars == <<ttsAudioData, playbackAudioData, ttsCtxDone, playCtxDone,
              audioBuffer, rfPc, synthPc, playerPc, mainPc>>

pipeObs == <<produced, received, emitted, played, rfCancelled>>

capVars == <<capPc, capCtxDone, captureCtxDone, sttCtxDone, sttResults,
             transcription, silenceTimer, timerC, now, recogPc>>

capObs == <<sentFrags, recvFrags, lastAccept, firedAt, capResult>>

turnVars == <<turnPc, turnCtxDone, turnInput, turnReply, turnErr, closerPc,
              panicked, loopResult, nRounds>>

turnObs == <<turnLog, turnOutcome, turnBase, genCalls>>

rwVars == <<historyMutex, wPc, wEntry, nWrites, rPc, rKind, rLen, rResult,
            nReads, committed, rWindow>>

listenVars == <<audioData, micPc, feedPc, fwdPc, nCaptured, dropped, fed>>

vars == <<histVars, engineVars, startVars, stopVars, pipeVars, pipeObs,
         capVars, capObs, turnVars, turnObs, rwVars, listenVars>>

(***************************************************************************)
(* Bounds of the model.                                                    *)
(***************************************************************************)
\* Largest MaxHistorySize a caller passes to NewEngine.
MaxCap == 2
\* Number of history operations in one behaviour.
MaxOps == 5

(***************************************************************************)
(* Go values.                                                              *)
(***************************************************************************)
\* The zero value of ConversationEntry, as found in unused array slots.
NoEntry == [UserInput |-> "", AIResponse |-> "", Timestamp |-> 0]

Utterances == {"u1", "u2"}
Replies == {"r1"}

RECURSIVE Zeros(_, _)
Zeros(n, z) == IF n <= 0 THEN <<>> ELSE <<z>> \o Zeros(n - 1, z)

\* make([]T, 0): a slice of length 0 over an empty array.
MakeSlice == [arr |-> <<>>, off |-> 0, len |-> 0]

\* cap(s)
SliceCap(s) == Len(s.arr) - s.off

\* The elements s[0], ..., s[len(s)-1].
SliceElems(s) == SubSeq(s.arr, s.off + 1, s.off + s.len)

\* The capacity append gives a slice that is full (runtime growslice for
\* small slices: double, at least the needed length).
GrowCap(oldCap, needed) == IF needed > 2 * oldCap THEN needed ELSE 2 * oldCap

\* append(s, e): in place when there is spare capacity, else into a new array.
GoAppend(s, e) ==
    IF s.len < SliceCap(s)
    THEN [s EXCEPT !.arr = [s.arr EXCEPT ![s.off + s.len + 1] = e],
                   !.len = s.len + 1]
    ELSE [arr |-> SliceElems(s) \o <<e>>
                    \o Zeros(GrowCap(SliceCap(s), s.len + 1) - (s.len + 1), NoEntry),
          off |-> 0,
          len |-> s.len + 1]

\* s[lo:]
SliceFrom(s, lo) == [s EXCEPT !.off = s.off + lo, !.len = s.len - lo]

\* s[:hi]
SliceTo(s, hi) == [s EXCEPT !.len = hi]

\* copy(make([]T, len(s)), s): a fresh array holding the elements of s.
CopySlice(s) == [arr |-> SliceElems(s), off |-> 0, len |-> s.len]

\* append(s, e) writes into the array of s instead of allocating one.
AppendsInPlace(s) == s.len < SliceCap(s)

(***************************************************************************)
(* NewEngine (engine.go:50-77).                                            *)
(***************************************************************************)
DefaultMaxHistorySize == 10
DefaultSilenceTimeout == 3
DefaultSampleRate == 44100

NewEngineConfig(c) ==
    [c EXCEPT !.MaxHistorySize = IF @ = 0 THEN DefaultMaxHistorySize ELSE @,
              !.SilenceTimeout = IF @ = 0 THEN DefaultSilenceTimeout ELSE @,
              !.SampleRate     = IF @ = 0 THEN DefaultSampleRate ELSE @]

(***************************************************************************)
(* The values the variables of a part have while that part is not running.  *)
(***************************************************************************)
Callers == {"s1", "s2"}

\* The Engine as NewEngine returns it, its collaborators not yet acquired.
EngineIdle ==
    /\ isRunning = FALSE
    /\ runningMutex = "free"
    /\ audioStreamer = [initialized |-> 0, open |-> 0]
    /\ soundPlayer = [initialized |-> 0]
    /\ sttClient = "open"
    /\ ttsClient = "open"

\* No Start call has been made.
StartIdle ==
    /\ pc = [p \in Callers |-> "idle"]
    /\ ctxDone = [p \in Callers |-> FALSE]
    /\ defers = [p \in Callers |-> <<>>]
    /\ startResult = [p \in Callers |-> "none"]
    /\ userInput = [p \in Callers |-> ""]
    /\ aiResponse = [p \in Callers |-> ""]
    /\ cycleErr = [p \in Callers |-> "nil"]
    /\ nCalls = [p \in Callers |-> 0]
    /\ nTurns = 0
    /\ guardOutcome = [p \in Callers |-> "none"]
    /\ sawRunning = [p \in Callers |-> {}]
    /\ concurrent = [p \in Callers |-> {}]
    /\ callLog = [p \in Callers |-> {}]

\* No caller holds a result of GetHistory.
NoReader ==
    /\ held = [arr |-> <<>>, off |-> 0, len |-> 0, shared |-> FALSE]
    /\ histLog = [at |-> <<>>, gets |-> 0, appends |-> 0, clears |-> 0,
                  reused |-> 0, evictions |-> 0, cleared |-> 0]

Readers == {"r1", "r2"}

\* No value a reader has been given yet.
NoRead == [kind |-> "none", entries |-> <<>>]

\* No goroutine is inside a method of the history.
LockIdle ==
    /\ historyMutex = [writer |-> FALSE, readers |-> {}]
    /\ wPc = "idle"
    /\ wEntry = NoEntry
    /\ nWrites = 0
    /\ rPc = [r \in Readers |-> "idle"]
    /\ rKind = [r \in Readers |-> "none"]
    /\ rLen = [r \in Readers |-> 0]
    /\ rResult = [r \in Readers |-> NoRead]
    /\ nReads = [r \in Readers |-> 0]
    /\ committed = <<>>
    /\ rWindow = [r \in Readers |-> {}]

\* No listening phase is being followed goroutine by goroutine.
ListenIdle ==
    /\ audioData = [buf |-> <<>>, closed |-> FALSE]
    /\ micPc = "idle"
    /\ feedPc = "idle"
    /\ fwdPc = "idle"
    /\ nCaptured = 0
    /\ dropped = <<>>
    /\ fed = <<>>

\* No Stop call has been made.
StopIdle ==
    /\ stopResult = <<>>
    /\ stopPending = FALSE
    /\ closeLog = <<>>

\* make(chan T, n): an open channel with nothing queued.
MakeChan == [buf |-> <<>>, closed |-> FALSE]

\* playTTSResponse has not been called.
PipeIdle ==
    /\ ttsAudioData = MakeChan
    /\ playbackAudioData = MakeChan
    /\ ttsCtxDone = FALSE
    /\ playCtxDone = FALSE
    /\ audioBuffer = <<>>
    /\ rfPc = "idle"
    /\ synthPc = "idle"
    /\ playerPc = "idle"
    /\ mainPc = "idle"
    /\ produced = <<>>
    /\ received = <<>>
    /\ emitted = <<>>
    /\ played = <<>>
    /\ rfCancelled = FALSE

\* No value: a time that has not occurred, a call that has not returned.
NoTime == 0 - 1
NoResult ==
    [text |-> <<>>, err |-> "none", by |-> "none", at |-> NoTime,
     left |-> <<>>]

CaptureIdle ==
    /\ capPc = "idle"
    /\ capCtxDone = FALSE
    /\ captureCtxDone = FALSE
    /\ sttCtxDone = FALSE
    /\ sttResults = MakeChan
    /\ transcription = <<>>
    /\ silenceTimer = [active |-> FALSE, deadline |-> 0]
    /\ timerC = 0
    /\ now = 0
    /\ recogPc = "idle"
    /\ sentFrags = <<>>
    /\ recvFrags = <<>>
    /\ lastAccept = 0
    /\ firedAt = NoTime
    /\ capResult = NoResult

\* The turn loop is not being followed.
TurnIdle ==
    /\ turnPc = "idle"
    /\ turnCtxDone = FALSE
    /\ turnInput = <<>>
    /\ turnReply = ""
    /\ turnErr = "nil"
    /\ closerPc = "idle"
    /\ panicked = FALSE
    /\ loopResult = "none"
    /\ nRounds = 0
    /\ turnLog = {}
    /\ turnOutcome = "none"
    /\ turnBase = 0
    /\ genCalls = <<>>

(***************************************************************************)
(* The conversation history (engine.go:283-311).  Each method holds        *)
(* historyMutex for its whole body, so each is one atomic step.            *)
(***************************************************************************)
\* The body of addToHistory: append, then drop the oldest entries.
TrimHistoryLost(h, max) == h
TrimHistory(h, max) ==
    IF h.len > max THEN SliceFrom(h, h.len - max) ELSE h

AppendHistoryFront(h, entry) ==
    [arr |-> <<entry>> \o SliceElems(h), off |-> 0, len |-> h.len + 1]
AppendHistory(h, entry) == GoAppend(h, entry)

addToHistoryBody(h, entry, max) == TrimHistory(AppendHistory(h, entry), max)

\* The entries a caller of GetHistory receives.
GetHistoryBody(h) == SliceElems(CopySlice(h))

\* The slice GetHistory returns (engine.go:300-302): a copy in an array of
\* its own, which e.history does not share.
GetHistoryResultAliased(h) == [shared |-> TRUE] @@ h
GetHistoryResult(h) == [shared |-> FALSE] @@ CopySlice(h)

\* What the append of addToHistory (engine.go:287) does to a slice v that a
\* caller holds, h being e.history before: a write into the array of h shows
\* in v when v shares that array; when append allocates, v keeps the old
\* array to itself.
AfterAppend(v, h, entry) ==
    IF ~v.shared THEN v
    ELSE IF AppendsInPlace(h) THEN [v EXCEPT !.arr = GoAppend(h, entry).arr]
    ELSE [v EXCEPT !.shared = FALSE]

ClearHistoryBodyKeeps(h) == h
ClearHistoryBody(h) == SliceTo(h, 0)

HistoryConfigs ==
    { [SystemPrompt |-> "p", MaxHistorySize |-> m, SampleRate |-> 0,
       SilenceTimeout |-> 0] : m \in 0..MaxCap }

HistInit ==
    /\ config \in { NewEngineConfig(c) : c \in HistoryConfigs }
    /\ history = MakeSlice
    /\ snapshot = <<>>
    /\ appended = <<>>
    /\ nOps = 0
    /\ NoReader /\ LockIdle /\ ListenIdle
    /\ EngineIdle /\ StartIdle /\ StopIdle /\ PipeIdle /\ CaptureIdle
    /\ TurnIdle

addToHistory(entry) ==
    /\ nOps < MaxOps
    /\ history' = addToHistoryBody(history, entry, config.MaxHistorySize)
    /\ appended' = Append(appended, entry)
    /\ nOps' = nOps + 1
    /\ held' = AfterAppend(held, history, entry)
    /\ histLog' = [histLog EXCEPT
                     !.appends = @ + 1,
                     !.reused = IF AppendsInPlace(history) THEN @ + 1 ELSE @,
                     !.evictions = IF history.len + 1 > config.MaxHistorySize
                                   THEN @ + 1 ELSE @]
    /\ UNCHANGED <<listenVars, rwVars, turnVars, turnObs, capVars, capObs, pipeVars, pipeObs, config, snapshot, engineVars, startVars, stopVars>>

AddEntry ==
    \E u \in Utterances, r \in Replies :
        addToHistory([UserInput |-> u, AIResponse |-> r, Timestamp |-> nOps + 1])

GetHistoryDrains ==
    /\ nOps < MaxOps
    /\ snapshot' = GetHistoryBody(history)
    /\ held' = GetHistoryResult(history)
    /\ histLog' = [histLog EXCEPT !.at = SliceElems(held'), !.gets = @ + 1,
                                  !.appends = 0, !.clears = 0, !.reused = 0,
                                  !.evictions = 0]
    /\ nOps' = nOps + 1
    /\ history' = SliceTo(history, 0)
    /\ UNCHANGED <<listenVars, rwVars, turnVars, turnObs, capVars, capObs, pipeVars, pipeObs, config, appended, engineVars, startVars, stopVars>>
GetHistory ==
    /\ nOps < MaxOps
    /\ snapshot' = GetHistoryBody(history)
    /\ held' = GetHistoryResult(history)
    /\ histLog' = [histLog EXCEPT !.at = SliceElems(held'), !.gets = @ + 1,
                                  !.appends = 0, !.clears = 0, !.reused = 0,
                                  !.evictions = 0]
    /\ nOps' = nOps + 1
    /\ UNCHANGED <<listenVars, rwVars, turnVars, turnObs, capVars, capObs, pipeVars, pipeObs, config, history, appended, engineVars, startVars, stopVars>>

ClearHistory ==
    /\ nOps < MaxOps
    /\ history' = ClearHistoryBody(history)
    /\ appended' = <<>>
    /\ nOps' = nOps + 1
    /\ histLog' = [histLog EXCEPT !.clears = @ + 1, !.cleared = @ + 1]
    /\ UNCHANGED <<listenVars, rwVars, turnVars, turnObs, capVars, capObs, pipeVars, pipeObs, config, snapshot, held, engineVars, startVars, stopVars>>

HistNext == AddEntry \/ GetHistory \/ ClearHistory

SpecHistory == HistInit /\ [][HistNext]_vars

(***************************************************************************)
(* NewEngine given any EngineConfig (engine.go:50-77), followed by calls   *)
(* of addToHistory.  NewEngine replaces zero fields only; a negative       *)
(* MaxHistorySize or SilenceTimeout is kept as it is.                      *)
(***************************************************************************)
\* The configurations a caller can pass: the fields are a Go int and a
\* time.Duration, both signed.
AnyConfigs ==
    [SystemPrompt : {"p"}, MaxHistorySize : -1..MaxCap, SampleRate : {0},
     SilenceTimeout : {-1, 0, 2}]

\* s[lo:] is within bounds (0 <= lo <= len(s)); Go panics otherwise.
SliceFromInRange(s, lo) == 0 <= lo /\ lo <= s.len

\* The slice expression of engine.go:291 panics on the appended history h.
TrimHistoryPanics(h, max) ==
    h.len > max /\ ~SliceFromInRange(h, h.len - max)

NewEngineInit ==
    /\ config \in { NewEngineConfig(c) : c \in AnyConfigs }
    /\ history = MakeSlice
    /\ snapshot = <<>>
    /\ appended = <<>>
    /\ nOps = 0
    /\ NoReader /\ LockIdle /\ ListenIdle
    /\ EngineIdle /\ StartIdle /\ StopIdle /\ PipeIdle /\ CaptureIdle
    /\ TurnIdle

\* addToHistory (engine.go:283-293) runs to its end.
AddToHistoryCompletes ==
    /\ ~panicked
    /\ \E u \in Utterances, r \in Replies :
          LET entry == [UserInput |-> u, AIResponse |-> r,
                        Timestamp |-> nOps + 1]
          IN /\ ~TrimHistoryPanics(AppendHistory(history, entry),
                                   config.MaxHistorySize)
             /\ addToHistory(entry)

\* addToHistory panics at engine.go:291, after the append of line 287; the
\* deferred Unlock runs and the panic goes up the goroutine.
AddToHistoryPanics ==
    /\ ~panicked
    /\ nOps < MaxOps
    /\ \E u \in Utterances, r \in Replies :
          LET entry == [UserInput |-> u, AIResponse |-> r,
                        Timestamp |-> nOps + 1]
          IN /\ TrimHistoryPanics(AppendHistory(history, entry),
                                  config.MaxHistorySize)
             /\ history' = AppendHistory(history, entry)
             /\ appended' = Append(appended, entry)
    /\ nOps' = nOps + 1
    /\ panicked' = TRUE
    /\ UNCHANGED <<listenVars, rwVars, turnObs, capVars, capObs, pipeVars, pipeObs,
                   config, snapshot, held, histLog, engineVars, startVars,
                   stopVars, turnPc, turnCtxDone, turnInput, turnReply,
                   turnErr, closerPc, loopResult, nRounds>>

NewEngineNext == AddToHistoryCompletes \/ AddToHistoryPanics

SpecNewEngine == NewEngineInit /\ [][NewEngineNext]_vars

(***************************************************************************)
(* The history under historyMutex, statement by statement: one goroutine   *)
(* (the loop of Start) calls addToHistory (engine.go:283-293) while other  *)
(* goroutines call GetHistory (296-303) and buildSystemMessage (259-280).  *)
(***************************************************************************)
\* addToHistory calls in one behaviour.
MaxWrites == 2
\* Calls each reader makes in one behaviour.
MaxReads == 1

\* The entries differ by their Timestamp.
WrittenUtterances == {"u1"}

\* sync.RWMutex: RLock proceeds while no writer holds the lock, Lock while
\* nobody holds it.
CanRLockAlways == TRUE
CanRLock == ~historyMutex.writer

CanLock == ~historyMutex.writer /\ historyMutex.readers = {}

\* copy(dst, src) into dst = make([]ConversationEntry, n): the first n
\* entries of src, the rest of dst staying zero.
CopyInto(n, src) ==
    [i \in 1..n |-> IF i <= Len(src) THEN src[i] ELSE NoEntry]

LockInit ==
    /\ config \in { NewEngineConfig(c) : c \in HistoryConfigs }
    /\ history = MakeSlice
    /\ snapshot = <<>>
    /\ appended = <<>>
    /\ nOps = 0
    /\ NoReader /\ LockIdle /\ ListenIdle
    /\ EngineIdle /\ StartIdle /\ StopIdle /\ PipeIdle /\ CaptureIdle
    /\ TurnIdle

lockFrozen ==
    <<engineVars, startVars, stopVars, pipeVars, pipeObs, capVars, capObs,
      turnVars, turnObs, config, snapshot, nOps, held, histLog, listenVars>>

\* The loop calls addToHistory(entry).
WriterCall ==
    /\ wPc = "idle"
    /\ nWrites < MaxWrites
    /\ \E u \in WrittenUtterances, r \in Replies :
          wEntry' = [UserInput |-> u, AIResponse |-> r,
                     Timestamp |-> nWrites + 1]
    /\ nWrites' = nWrites + 1
    /\ wPc' = "lock"
    /\ UNCHANGED <<lockFrozen, history, appended, historyMutex, rPc, rKind,
                   rLen, rResult, nReads, committed, rWindow>>

\* engine.go:284
WriterLock ==
    /\ wPc = "lock"
    /\ CanLock
    /\ historyMutex' = [historyMutex EXCEPT !.writer = TRUE]
    /\ wPc' = "append"
    /\ UNCHANGED <<lockFrozen, history, appended, wEntry, nWrites, rPc,
                   rKind, rLen, rResult, nReads, committed, rWindow>>

\* engine.go:287
WriterAppend ==
    /\ wPc = "append"
    /\ history' = AppendHistory(history, wEntry)
    /\ appended' = Append(appended, wEntry)
    /\ wPc' = "trim"
    /\ UNCHANGED <<lockFrozen, historyMutex, wEntry, nWrites, rPc, rKind,
                   rLen, rResult, nReads, committed, rWindow>>

\* engine.go:290-292
WriterTrim ==
    /\ wPc = "trim"
    /\ history' = TrimHistory(history, config.MaxHistorySize)
    /\ wPc' = "unlock"
    /\ UNCHANGED <<lockFrozen, appended, historyMutex, wEntry, nWrites, rPc,
                   rKind, rLen, rResult, nReads, committed, rWindow>>

\* engine.go:285: the deferred Unlock; the append-and-evict step is whole.
WriterUnlock ==
    /\ wPc = "unlock"
    /\ historyMutex' = [historyMutex EXCEPT !.writer = FALSE]
    /\ wPc' = "idle"
    /\ committed' = SliceElems(history)
    /\ rWindow' = [r \in Readers |->
                      IF rPc[r] # "idle"
                      THEN rWindow[r] \cup {SliceElems(history)}
                      ELSE rWindow[r]]
    /\ UNCHANGED <<lockFrozen, history, appended, wEntry, nWrites, rPc,
                   rKind, rLen, rResult, nReads>>

\* A goroutine calls GetHistory or buildSystemMessage.
ReaderCall(r) ==
    /\ rPc[r] = "idle"
    /\ nReads[r] < MaxReads
    /\ \E k \in {"GetHistory", "buildSystemMessage"} :
          rKind' = [rKind EXCEPT ![r] = k]
    /\ nReads' = [nReads EXCEPT ![r] = @ + 1]
    /\ rPc' = [rPc EXCEPT ![r] = "rlock"]
    /\ rResult' = [rResult EXCEPT ![r] = NoRead]
    /\ rWindow' = [rWindow EXCEPT ![r] = {committed}]
    /\ UNCHANGED <<lockFrozen, history, appended, historyMutex, wPc, wEntry,
                   nWrites, rLen, committed>>

\* engine.go:260, 297
ReaderRLock(r) ==
    /\ rPc[r] = "rlock"
    /\ CanRLock
    /\ historyMutex' = [historyMutex EXCEPT !.readers = @ \cup {r}]
    /\ rPc' = [rPc EXCEPT ![r] = "len"]
    /\ UNCHANGED <<lockFrozen, history, appended, wPc, wEntry, nWrites,
                   rKind, rLen, rResult, nReads, committed, rWindow>>

\* engine.go:266, 300: len(e.history)
ReaderLen(r) ==
    /\ rPc[r] = "len"
    /\ rLen' = [rLen EXCEPT ![r] = history.len]
    /\ rPc' = [rPc EXCEPT ![r] = "read"]
    /\ UNCHANGED <<lockFrozen, history, appended, historyMutex, wPc, wEntry,
                   nWrites, rKind, rResult, nReads, committed, rWindow>>

\* engine.go:301: copy(history, e.history); engine.go:266-272: the entries
\* of e.history are listed when its length was not 0.
ReaderRead(r) ==
    /\ rPc[r] = "read"
    /\ rResult' = [rResult EXCEPT ![r] =
                      [kind |-> rKind[r],
                       entries |->
                          IF rKind[r] = "GetHistory"
                          THEN CopyInto(rLen[r], SliceElems(history))
                          ELSE IF rLen[r] > 0 THEN SliceElems(history)
                          ELSE <<>>]]
    /\ rPc' = [rPc EXCEPT ![r] = "runlock"]
    /\ UNCHANGED <<lockFrozen, history, appended, historyMutex, wPc, wEntry,
                   nWrites, rKind, rLen, nReads, committed, rWindow>>

\* engine.go:261, 298: the deferred RUnlock; the call returns.
ReaderRUnlock(r) ==
    /\ rPc[r] = "runlock"
    /\ historyMutex' = [historyMutex EXCEPT !.readers = @ \ {r}]
    /\ rPc' = [rPc EXCEPT ![r] = "idle"]
    /\ UNCHANGED <<lockFrozen, history, appended, wPc, wEntry, nWrites,
                   rKind, rLen, rResult, nReads, committed, rWindow>>

LockNext ==
    \/ WriterCall \/ WriterLock \/ WriterAppend \/ WriterTrim \/ WriterUnlock
    \/ \E r \in Readers : ReaderCall(r)
    \/ \E r \in Readers : ReaderRLock(r)
    \/ \E r \in Readers : ReaderLen(r)
    \/ \E r \in Readers : ReaderRead(r)
    \/ \E r \in Readers : ReaderRUnlock(r)

SpecLock == LockInit /\ [][LockNext]_vars

(***************************************************************************)
(* Engine.Start (engine.go:80-129) and the turn it drives                  *)
(* (processConversationCycle, engine.go:132-166).  A caller p is one       *)
(* goroutine calling Start; pc[p] is the statement it is about to execute. *)
(* The collaborators answer nondeterministically.                          *)
(***************************************************************************)
\* Start calls each caller makes in one behaviour.
MaxCalls == 1
\* Turns that reach the history in one behaviour.
MaxTurns == 1

StartUtterances == {"u1"}

StartConfigs ==
    { [SystemPrompt |-> "p", MaxHistorySize |-> 1, SampleRate |-> 0,
       SilenceTimeout |-> 0] }

\* The statements of Start after e.isRunning = true and before the deferred
\* reset of e.isRunning has run.
PastGuardPcs ==
    {"initAudio", "openAudio", "initPlayer", "loop", "capture", "generate",
     "speak", "record", "cycleErr", "return"}

PastGuardCallers == { q \in Callers : pc[q] \in PastGuardPcs }

InCall(q) == pc[q] # "idle"

\* e.runningMutex.Lock() can proceed.
RunningMutexNeverHeld == TRUE
RunningMutexFree == runningMutex = "free"

\* The deferred func of engine.go:89-93, run when Start returns.
ResetRunningForgotten == isRunning
ResetRunning == FALSE

\* IsRunning (engine.go:314-318).
IsRunning == isRunning

StartInit ==
    /\ config \in { NewEngineConfig(c) : c \in StartConfigs }
    /\ history = MakeSlice
    /\ snapshot = <<>>
    /\ appended = <<>>
    /\ nOps = 0
    /\ NoReader /\ LockIdle /\ ListenIdle
    /\ EngineIdle /\ StartIdle /\ StopIdle /\ PipeIdle /\ CaptureIdle
    /\ TurnIdle

\* A goroutine calls e.Start(ctx), with a live or an already cancelled ctx.
StartCall(p) ==
    /\ pc[p] = "idle"
    /\ nCalls[p] < MaxCalls
    /\ pc' = [pc EXCEPT ![p] = "lock"]
    /\ \E c \in BOOLEAN : ctxDone' = [ctxDone EXCEPT ![p] = c]
    /\ nCalls' = [nCalls EXCEPT ![p] = @ + 1]
    /\ startResult' = [startResult EXCEPT ![p] = "none"]
    /\ guardOutcome' = [guardOutcome EXCEPT ![p] = "none"]
    /\ sawRunning' = [sawRunning EXCEPT ![p] = {}]
    /\ concurrent' = [q \in Callers |->
                        IF q = p THEN { r \in Callers \ {p} : InCall(r) }
                        ELSE IF InCall(q) THEN concurrent[q] \cup {p}
                        ELSE concurrent[q] \ {p}]
    /\ callLog' = [callLog EXCEPT ![p] = {}]
    /\ UNCHANGED <<listenVars, rwVars, turnVars, turnObs, capVars, capObs, pipeVars, pipeObs, histVars, engineVars, stopVars, defers, userInput,
                   aiResponse, cycleErr, nTurns>>

\* engine.go:81
LockRunning(p) ==
    /\ pc[p] = "lock"
    /\ RunningMutexFree
    /\ runningMutex' = p
    /\ pc' = [pc EXCEPT ![p] = "guard"]
    /\ UNCHANGED <<listenVars, rwVars, turnVars, turnObs, capVars, capObs, pipeVars, pipeObs, histVars, stopVars, isRunning, audioStreamer, soundPlayer,
                   sttClient, ttsClient, ctxDone, defers, startResult,
                   userInput, aiResponse, cycleErr, nCalls, nTurns,
                   guardOutcome, sawRunning, concurrent, callLog>>

\* engine.go:82-85: the engine is running, Start fails.
GuardAlreadyRunningResets(p) ==
    /\ pc[p] = "guard"
    /\ isRunning
    /\ isRunning' = FALSE
    /\ runningMutex' = "free"
    /\ startResult' = [startResult EXCEPT ![p] = "AlreadyRunning"]
    /\ guardOutcome' = [guardOutcome EXCEPT ![p] = "already"]
    /\ sawRunning' = [sawRunning EXCEPT ![p] = PastGuardCallers \ {p}]
    /\ pc' = [pc EXCEPT ![p] = "idle"]
    /\ UNCHANGED <<listenVars, rwVars, turnVars, turnObs, capVars, capObs, pipeVars, pipeObs,
                   histVars, stopVars, audioStreamer, soundPlayer, sttClient,
                   ttsClient, ctxDone, defers, userInput, aiResponse,
                   cycleErr, nCalls, nTurns, concurrent, callLog>>
GuardAlreadyRunning(p) ==
    /\ pc[p] = "guard"
    /\ isRunning
    /\ runningMutex' = "free"
    /\ startResult' = [startResult EXCEPT ![p] = "AlreadyRunning"]
    /\ guardOutcome' = [guardOutcome EXCEPT ![p] = "already"]
    /\ sawRunning' = [sawRunning EXCEPT ![p] = PastGuardCallers \ {p}]
    /\ pc' = [pc EXCEPT ![p] = "idle"]
    /\ UNCHANGED <<listenVars, rwVars, turnVars, turnObs, capVars, capObs, pipeVars, pipeObs, histVars, stopVars, isRunning, audioStreamer, soundPlayer,
                   sttClient, ttsClient, ctxDone, defers, userInput,
                   aiResponse, cycleErr, nCalls, nTurns, concurrent, callLog>>

\* engine.go:82: the engine is not running.
GuardPass(p) ==
    /\ pc[p] = "guard"
    /\ ~isRunning
    /\ sawRunning' = [sawRunning EXCEPT ![p] = PastGuardCallers \ {p}]
    /\ pc' = [pc EXCEPT ![p] = "set"]
    /\ UNCHANGED <<listenVars, rwVars, turnVars, turnObs, capVars, capObs, pipeVars, pipeObs, histVars, stopVars, engineVars, ctxDone, defers,
                   startResult, userInput, aiResponse, cycleErr, nCalls,
                   nTurns, guardOutcome, concurrent, callLog>>

\* engine.go:86-93: set the flag, unlock, register the deferred reset.
SetRunning(p) ==
    /\ pc[p] = "set"
    /\ isRunning' = TRUE
    /\ runningMutex' = "free"
    /\ guardOutcome' = [guardOutcome EXCEPT ![p] = "passed"]
    /\ defers' = [defers EXCEPT ![p] = Append(@, "resetRunning")]
    /\ pc' = [pc EXCEPT ![p] = "initAudio"]
    /\ UNCHANGED <<listenVars, rwVars, turnVars, turnObs, capVars, capObs, pipeVars, pipeObs, histVars, stopVars, audioStreamer, soundPlayer, sttClient,
                   ttsClient, ctxDone, startResult, userInput, aiResponse,
                   cycleErr, nCalls, nTurns, sawRunning, concurrent, callLog>>

\* engine.go:97, 102, 108: an initialization error is returned at once.
InitFailureGoesOn(p) ==
    /\ startResult' = [startResult EXCEPT ![p] = "InitError"]
    /\ pc' = [pc EXCEPT ![p] = "loop"]
InitFailure(p) ==
    /\ startResult' = [startResult EXCEPT ![p] = "InitError"]
    /\ pc' = [pc EXCEPT ![p] = "return"]

\* engine.go:96-99
InitAudio(p) ==
    /\ pc[p] = "initAudio"
    /\ \/ /\ audioStreamer' = [audioStreamer EXCEPT !.initialized = @ + 1]
          /\ defers' = [defers EXCEPT ![p] = Append(@, "audioTerminate")]
          /\ pc' = [pc EXCEPT ![p] = "openAudio"]
          /\ UNCHANGED startResult
       \/ /\ InitFailure(p)
          /\ UNCHANGED <<audioStreamer, defers>>
    /\ UNCHANGED <<listenVars, rwVars, turnVars, turnObs, capVars, capObs, pipeVars, pipeObs, histVars, stopVars, isRunning, runningMutex, soundPlayer,
                   sttClient, ttsClient, ctxDone, userInput, aiResponse,
                   cycleErr, nCalls, nTurns, guardOutcome, sawRunning,
                   concurrent, callLog>>

\* engine.go:101-104
OpenAudio(p) ==
    /\ pc[p] = "openAudio"
    /\ \/ /\ audioStreamer' = [audioStreamer EXCEPT !.open = @ + 1]
          /\ defers' = [defers EXCEPT ![p] = Append(@, "audioClose")]
          /\ pc' = [pc EXCEPT ![p] = "initPlayer"]
          /\ UNCHANGED startResult
       \/ /\ InitFailure(p)
          /\ UNCHANGED <<audioStreamer, defers>>
    /\ UNCHANGED <<listenVars, rwVars, turnVars, turnObs, capVars, capObs, pipeVars, pipeObs, histVars, stopVars, isRunning, runningMutex, soundPlayer,
                   sttClient, ttsClient, ctxDone, userInput, aiResponse,
                   cycleErr, nCalls, nTurns, guardOutcome, sawRunning,
                   concurrent, callLog>>

\* engine.go:107-110
InitPlayer(p) ==
    /\ pc[p] = "initPlayer"
    /\ \/ /\ soundPlayer' = [soundPlayer EXCEPT !.initialized = @ + 1]
          /\ defers' = [defers EXCEPT ![p] = Append(@, "playerTerminate")]
          /\ pc' = [pc EXCEPT ![p] = "loop"]
          /\ UNCHANGED startResult
       \/ /\ InitFailure(p)
          /\ UNCHANGED <<soundPlayer, defers>>
    /\ UNCHANGED <<listenVars, rwVars, turnVars, turnObs, capVars, capObs, pipeVars, pipeObs, histVars, stopVars, isRunning, runningMutex, audioStreamer,
                   sttClient, ttsClient, ctxDone, userInput, aiResponse,
                   cycleErr, nCalls, nTurns, guardOutcome, sawRunning,
                   concurrent, callLog>>

\* engine.go:114-120: the select at the head of the loop; a turn begins with
\* captureUserInput starting the capture and the recognition (177-193).
LoopSelectDefaultFirst(p) ==
    /\ pc[p] = "loop"
    /\ pc' = [pc EXCEPT ![p] = "capture"]
    /\ UNCHANGED startResult
    /\ callLog' = [callLog EXCEPT ![p] = @ \cup {"loop", "capture", "recognize"}]
    /\ UNCHANGED <<listenVars, rwVars, turnVars, turnObs, capVars, capObs, pipeVars, pipeObs, histVars, stopVars, engineVars, ctxDone, defers, userInput,
                   aiResponse, cycleErr, nCalls, nTurns, guardOutcome,
                   sawRunning, concurrent>>
LoopSelect(p) ==
    /\ pc[p] = "loop"
    /\ IF ctxDone[p]
       THEN /\ startResult' = [startResult EXCEPT ![p] = "Canceled"]
            /\ pc' = [pc EXCEPT ![p] = "return"]
       ELSE /\ pc' = [pc EXCEPT ![p] = "capture"]
            /\ UNCHANGED startResult
    /\ callLog' = [callLog EXCEPT ![p] =
                        @ \cup {"loop"}
                          \cup (IF ctxDone[p] THEN {}
                                ELSE {"capture", "recognize"})]
    /\ UNCHANGED <<listenVars, rwVars, turnVars, turnObs, capVars, capObs, pipeVars, pipeObs, histVars, stopVars, engineVars, ctxDone, defers, userInput,
                   aiResponse, cycleErr, nCalls, nTurns, guardOutcome,
                   sawRunning, concurrent>>

\* engine.go:134-141: captureUserInput returns the cancellation, an empty
\* text (the turn is skipped) or an utterance.  A closed STT client
\* recognizes nothing.
CaptureUserInput(p) ==
    /\ pc[p] = "capture"
    /\ \/ /\ ctxDone[p]
          /\ cycleErr' = [cycleErr EXCEPT ![p] = "capture"]
          /\ pc' = [pc EXCEPT ![p] = "cycleErr"]
          /\ UNCHANGED userInput
       \/ /\ userInput' = [userInput EXCEPT ![p] = ""]
          /\ pc' = [pc EXCEPT ![p] = "loop"]
          /\ UNCHANGED cycleErr
       \/ /\ sttClient = "open"
          /\ nTurns < MaxTurns
          /\ \E u \in StartUtterances :
                userInput' = [userInput EXCEPT ![p] = u]
          /\ pc' = [pc EXCEPT ![p] = "generate"]
          /\ UNCHANGED cycleErr
    /\ UNCHANGED <<listenVars, rwVars, turnVars, turnObs, capVars, capObs, pipeVars, pipeObs, histVars, stopVars, engineVars, ctxDone, defers,
                   startResult, aiResponse, nCalls, nTurns, guardOutcome,
                   sawRunning, concurrent, callLog>>

\* engine.go:146-149
GenerateResponse(p) ==
    /\ pc[p] = "generate"
    /\ callLog' = [callLog EXCEPT ![p] = @ \cup {"generate"}]
    /\ \/ /\ \E r \in Replies : aiResponse' = [aiResponse EXCEPT ![p] = r]
          /\ pc' = [pc EXCEPT ![p] = "speak"]
          /\ UNCHANGED cycleErr
       \/ /\ cycleErr' = [cycleErr EXCEPT ![p] = "generate"]
          /\ pc' = [pc EXCEPT ![p] = "cycleErr"]
          /\ UNCHANGED aiResponse
    /\ UNCHANGED <<listenVars, rwVars, turnVars, turnObs, capVars, capObs, pipeVars, pipeObs, histVars, stopVars, engineVars, ctxDone, defers,
                   startResult, userInput, nCalls, nTurns, guardOutcome,
                   sawRunning, concurrent>>

\* engine.go:154-156: speakResponse returns what PlayStream returned.
SpeakResponse(p) ==
    /\ pc[p] = "speak"
    /\ callLog' = [callLog EXCEPT ![p] = @ \cup {"synthesize", "play"}]
    /\ \/ /\ pc' = [pc EXCEPT ![p] = "record"]
          /\ UNCHANGED cycleErr
       \/ /\ cycleErr' = [cycleErr EXCEPT ![p] = "speak"]
          /\ pc' = [pc EXCEPT ![p] = "cycleErr"]
    /\ UNCHANGED <<listenVars, rwVars, turnVars, turnObs, capVars, capObs, pipeVars, pipeObs, histVars, stopVars, engineVars, ctxDone, defers,
                   startResult, userInput, aiResponse, nCalls, nTurns,
                   guardOutcome, sawRunning, concurrent>>

\* engine.go:159-165
RecordTurn(p) ==
    /\ pc[p] = "record"
    /\ LET entry == [UserInput |-> userInput[p], AIResponse |-> aiResponse[p],
                     Timestamp |-> nTurns + 1]
       IN /\ history' = addToHistoryBody(history, entry, config.MaxHistorySize)
          /\ appended' = Append(appended, entry)
    /\ nTurns' = nTurns + 1
    /\ pc' = [pc EXCEPT ![p] = "loop"]
    /\ callLog' = [callLog EXCEPT ![p] = @ \cup {"record"}]
    /\ UNCHANGED <<listenVars, rwVars, turnVars, turnObs, capVars, capObs, pipeVars, pipeObs, config, snapshot, nOps, held, histLog, stopVars, engineVars, ctxDone,
                   defers, startResult, userInput, aiResponse, cycleErr,
                   nCalls, guardOutcome, sawRunning, concurrent>>

\* engine.go:120-126: a failed turn ends Start only when ctx is cancelled.
CycleError(p) ==
    /\ pc[p] = "cycleErr"
    /\ cycleErr' = [cycleErr EXCEPT ![p] = "nil"]
    /\ IF ctxDone[p]
       THEN /\ startResult' = [startResult EXCEPT ![p] = "Canceled"]
            /\ pc' = [pc EXCEPT ![p] = "return"]
       ELSE /\ pc' = [pc EXCEPT ![p] = "loop"]
            /\ UNCHANGED startResult
    /\ UNCHANGED <<listenVars, rwVars, turnVars, turnObs, capVars, capObs, pipeVars, pipeObs, histVars, stopVars, engineVars, ctxDone, defers, userInput,
                   aiResponse, nCalls, nTurns, guardOutcome, sawRunning,
                   concurrent, callLog>>

\* Start returns: the deferred functions run, last registered first
\* (engine.go:89-93, 99, 104, 110); after the last one the call is over.
RunDeferredOldestFirst(p) ==
    /\ pc[p] = "return"
    /\ defers[p] # <<>>
    /\ LET d == defers[p][1]
       IN /\ d = "resetRunning" => RunningMutexFree
          /\ isRunning' = IF d = "resetRunning" THEN ResetRunning ELSE isRunning
          /\ stopPending' = IF d = "resetRunning" THEN FALSE ELSE stopPending
          /\ soundPlayer' = IF d = "playerTerminate"
                            THEN [soundPlayer EXCEPT !.initialized = @ - 1]
                            ELSE soundPlayer
          /\ audioStreamer' =
                IF d = "audioClose"
                THEN [audioStreamer EXCEPT !.open = @ - 1]
                ELSE IF d = "audioTerminate"
                THEN [audioStreamer EXCEPT !.initialized = @ - 1]
                ELSE audioStreamer
    /\ defers' = [defers EXCEPT ![p] = SubSeq(@, 2, Len(@))]
    /\ pc' = [pc EXCEPT ![p] = IF Len(defers[p]) = 1 THEN "idle" ELSE "return"]
    /\ UNCHANGED <<listenVars, rwVars, turnVars, turnObs, capVars, capObs, pipeVars, pipeObs, histVars, stopResult, closeLog, runningMutex, sttClient, ttsClient,
                   ctxDone, startResult, userInput, aiResponse, cycleErr,
                   nCalls, nTurns, guardOutcome, sawRunning, concurrent, callLog>>
RunDeferred(p) ==
    /\ pc[p] = "return"
    /\ defers[p] # <<>>
    /\ LET d == defers[p][Len(defers[p])]
       IN /\ d = "resetRunning" => RunningMutexFree
          /\ isRunning' = IF d = "resetRunning" THEN ResetRunning ELSE isRunning
          /\ stopPending' = IF d = "resetRunning" THEN FALSE ELSE stopPending
          /\ soundPlayer' = IF d = "playerTerminate"
                            THEN [soundPlayer EXCEPT !.initialized = @ - 1]
                            ELSE soundPlayer
          /\ audioStreamer' =
                IF d = "audioClose"
                THEN [audioStreamer EXCEPT !.open = @ - 1]
                ELSE IF d = "audioTerminate"
                THEN [audioStreamer EXCEPT !.initialized = @ - 1]
                ELSE audioStreamer
    /\ defers' = [defers EXCEPT ![p] = SubSeq(@, 1, Len(@) - 1)]
    /\ pc' = [pc EXCEPT ![p] = IF Len(defers[p]) = 1 THEN "idle" ELSE "return"]
    /\ UNCHANGED <<listenVars, rwVars, turnVars, turnObs, capVars, capObs, pipeVars, pipeObs, histVars, stopResult, closeLog, runningMutex, sttClient, ttsClient,
                   ctxDone, startResult, userInput, aiResponse, cycleErr,
                   nCalls, nTurns, guardOutcome, sawRunning, concurrent, callLog>>

\* The owner of the ctx of p's Start call cancels it.
CancelCtx(p) ==
    /\ InCall(p)
    /\ ~ctxDone[p]
    /\ ctxDone' = [ctxDone EXCEPT ![p] = TRUE]
    /\ UNCHANGED <<listenVars, rwVars, turnVars, turnObs, capVars, capObs, pipeVars, pipeObs, histVars, stopVars, engineVars, pc, defers, startResult,
                   userInput, aiResponse, cycleErr, nCalls, nTurns,
                   guardOutcome, sawRunning, concurrent, callLog>>

\* Engine.Stop (engine.go:321-342): close both clients, report every failure.
\* The error Stop returns is the list of its messages; nil is the empty list.
StopErrorsFirstOnly(sttErr, ttsErr) ==
    IF sttErr THEN <<"failed to close STT client">>
    ELSE IF ttsErr THEN <<"failed to close TTS client">> ELSE <<>>
StopErrors(sttErr, ttsErr) ==
    (IF sttErr THEN <<"failed to close STT client">> ELSE <<>>)
        \o (IF ttsErr THEN <<"failed to close TTS client">> ELSE <<>>)

\* engine.go:325, 329: the Close calls, whatever the first one returned.
StopCloses(sttErr, ttsErr) ==
    << [client |-> "STT", failed |-> sttErr],
       [client |-> "TTS", failed |-> ttsErr] >>

Stop ==
    /\ \E sttErr \in BOOLEAN, ttsErr \in BOOLEAN :
          /\ stopResult' = StopErrors(sttErr, ttsErr)
          /\ closeLog' = StopCloses(sttErr, ttsErr)
    /\ sttClient' = "closed"
    /\ ttsClient' = "closed"
    /\ stopPending' = (stopPending \/ IsRunning)
    /\ UNCHANGED <<listenVars, rwVars, turnVars, turnObs, capVars, capObs, pipeVars, pipeObs, histVars, startVars, isRunning, runningMutex,
                   audioStreamer, soundPlayer>>

\* The steps the goroutine running Start takes by itself.
EngineStep(p) ==
    \/ LockRunning(p) \/ GuardAlreadyRunning(p) \/ GuardPass(p)
    \/ SetRunning(p) \/ InitAudio(p) \/ OpenAudio(p) \/ InitPlayer(p)
    \/ LoopSelect(p) \/ CaptureUserInput(p) \/ GenerateResponse(p)
    \/ SpeakResponse(p) \/ RecordTurn(p) \/ CycleError(p) \/ RunDeferred(p)

StartNext ==
    \/ \E p \in Callers : StartCall(p)
    \/ \E p \in Callers : EngineStep(p)
    \/ \E p \in Callers : CancelCtx(p)
    \/ Stop

SpecStart == StartInit /\ [][StartNext]_vars

\* The scheduler keeps running a goroutine that can take a step.
SpecStartFair == SpecStart /\ \A p \in Callers : WF_vars(EngineStep(p))

(***************************************************************************)
(* playTTSResponse (main.go:197-297): the synthesizer writes chunks of any *)
(* size to ttsAudioData, the reframing goroutine (main.go:230-274) cuts    *)
(* them into frames of chunkSize bytes for playbackAudioData, the player   *)
(* consumes the frames.  playWelcomeMessage runs the same goroutine with   *)
(* chunkSize = 2048 * 2.                                                   *)
(* The reframer never looks at a byte's value, so the k-th byte the        *)
(* synthesizer produces carries the value k: loss, duplication and         *)
(* reordering all show.                                                    *)
(***************************************************************************)
\* playerConfig.FramesPerBuffer (2048 in main.go:58), scaled down.
FramesPerBuffer == 2
\* playerConfig.OutputChannels
OutputChannels == 1
\* Longest chunk the synthesizer emits.
MaxChunkLen == 5
\* Number of chunks the synthesizer emits in one call.
MaxChunks == 3
\* Capacity of ttsAudioData (100 in main.go:214), scaled down.
TtsChanCap == 2
\* Capacity of playbackAudioData (10 in main.go:215), scaled down.
PlaybackChanCap == 1

\* main.go:234
chunkSize == FramesPerBuffer * 2 * OutputChannels

RECURSIVE Flatten(_)
Flatten(ss) == IF ss = <<>> THEN <<>> ELSE Head(ss) \o Flatten(Tail(ss))

\* The chunk of n bytes that follows `sofar` bytes already produced.
NextChunk(sofar, n) == [i \in 1..n |-> sofar + i]

\* main.go:258: audioBuffer = append(audioBuffer, chunk...)
AppendChunkBefore(buf, chunk) == chunk \o buf
AppendChunk(buf, chunk) == buf \o chunk

\* main.go:263: audioBuffer[:chunkSize]
FirstFrame(buf) == SubSeq(buf, 1, chunkSize)

\* main.go:264: audioBuffer = audioBuffer[chunkSize:]
AfterFrame(buf) == SubSeq(buf, chunkSize + 1, Len(buf))

\* main.go:241: is there a remainder to flush when the input has ended?
NeedsFlushAlways(buf) == TRUE
NeedsFlush(buf) == Len(buf) > 0

\* main.go:242-246: the remainder, zero-padded to a whole frame.
PadFrameNot(buf) == buf
PadFrame(buf) ==
    IF Len(buf) < chunkSize THEN buf \o Zeros(chunkSize - Len(buf), 0) ELSE buf

ChanSendOverwrites(ch, v) == [ch EXCEPT !.buf = <<v>>]
ChanSend(ch, v) == [ch EXCEPT !.buf = Append(@, v)]
ChanRecv(ch) == [ch EXCEPT !.buf = Tail(@)]
ChanClose(ch) == [ch EXCEPT !.closed = TRUE]

PipeInit ==
    /\ config \in { NewEngineConfig(c) : c \in StartConfigs }
    /\ history = MakeSlice
    /\ snapshot = <<>>
    /\ appended = <<>>
    /\ nOps = 0
    /\ NoReader /\ LockIdle /\ ListenIdle
    /\ EngineIdle /\ StartIdle /\ StopIdle /\ CaptureIdle /\ TurnIdle
    /\ ttsAudioData = MakeChan
    /\ playbackAudioData = MakeChan
    /\ ttsCtxDone = FALSE
    /\ playCtxDone = FALSE
    /\ audioBuffer = <<>>
    /\ rfPc = "select"
    /\ synthPc = "start"
    /\ playerPc = "select"
    /\ mainPc = "waitSynth"
    /\ produced = <<>>
    /\ received = <<>>
    /\ emitted = <<>>
    /\ played = <<>>
    /\ rfCancelled = FALSE

pipeFrozen ==
    <<histVars, engineVars, startVars, stopVars, capVars, capObs, turnVars,
      turnObs, rwVars, listenVars>>

\* ---- SynthesizeToStreamWithContext (config.go:92-128)
\* config.go:101-104: the call fails before the stream exists; the deferred
\* close of audioData is not registered yet.
SynthStartFails ==
    /\ synthPc = "start"
    /\ synthPc' = "failed"
    /\ UNCHANGED <<pipeFrozen, ttsAudioData, playbackAudioData, ttsCtxDone,
                   playCtxDone, audioBuffer, rfPc, playerPc, mainPc, pipeObs>>

\* config.go:101-107
SynthStartOk ==
    /\ synthPc = "start"
    /\ synthPc' = "stream"
    /\ UNCHANGED <<pipeFrozen, ttsAudioData, playbackAudioData, ttsCtxDone,
                   playCtxDone, audioBuffer, rfPc, playerPc, mainPc, pipeObs>>

\* config.go:109-124: one response is received and its chunk, of one of
\* the given lengths, is sent.
SynthEmitOf(lens) ==
    /\ synthPc = "stream"
    /\ Len(produced) < MaxChunks
    /\ Len(ttsAudioData.buf) < TtsChanCap
    /\ \E n \in lens :
          LET chunk == NextChunk(Len(Flatten(produced)), n)
          IN /\ ttsAudioData' = ChanSend(ttsAudioData, chunk)
             /\ produced' = Append(produced, chunk)
    /\ UNCHANGED <<pipeFrozen, playbackAudioData, ttsCtxDone, playCtxDone,
                   audioBuffer, rfPc, synthPc, playerPc, mainPc, received,
                   emitted, played, rfCancelled>>

SynthEmit == SynthEmitOf(0..MaxChunkLen)

\* config.go:107, 110-112: io.EOF ends the stream; audioData is closed.
SynthEOF ==
    /\ synthPc = "stream"
    /\ synthPc' = "done"
    /\ ttsAudioData' = ChanClose(ttsAudioData)
    /\ UNCHANGED <<pipeFrozen, playbackAudioData, ttsCtxDone, playCtxDone,
                   audioBuffer, rfPc, playerPc, mainPc, pipeObs>>

\* config.go:107, 113-115, 121-122: a receive error, or ctx.Done seen while
\* receiving or sending; audioData is closed.
SynthError ==
    /\ synthPc = "stream"
    /\ synthPc' \in (IF ttsCtxDone THEN {"cancelled", "error"} ELSE {"error"})
    /\ ttsAudioData' = ChanClose(ttsAudioData)
    /\ UNCHANGED <<pipeFrozen, playbackAudioData, ttsCtxDone, playCtxDone,
                   audioBuffer, rfPc, playerPc, mainPc, pipeObs>>

\* ---- the reframing goroutine (main.go:230-274)
\* main.go:231: defer close(playbackAudioData)
ReframerReturn(cancelled) ==
    /\ rfPc' = "done"
    /\ playbackAudioData' = ChanClose(playbackAudioData)
    /\ rfCancelled' = cancelled

\* main.go:238, 257-261: a chunk arrives and is added to the buffer.
ReframerRecv ==
    /\ rfPc = "select"
    /\ ttsAudioData.buf # <<>>
    /\ LET chunk == Head(ttsAudioData.buf)
           buf == AppendChunk(audioBuffer, chunk)
       IN /\ audioBuffer' = buf
          /\ received' = received \o chunk
          /\ rfPc' = IF Len(buf) >= chunkSize THEN "send" ELSE "select"
    /\ ttsAudioData' = ChanRecv(ttsAudioData)
    /\ UNCHANGED <<pipeFrozen, playbackAudioData, ttsCtxDone, playCtxDone,
                   synthPc, playerPc, mainPc, produced, emitted, played,
                   rfCancelled>>

\* main.go:261-268: a full frame is sent and dropped from the buffer.
ReframerSendOnce ==
    /\ rfPc = "send"
    /\ Len(playbackAudioData.buf) < PlaybackChanCap
    /\ playbackAudioData' = ChanSend(playbackAudioData, FirstFrame(audioBuffer))
    /\ emitted' = Append(emitted, FirstFrame(audioBuffer))
    /\ audioBuffer' = AfterFrame(audioBuffer)
    /\ rfPc' = "select"
    /\ UNCHANGED <<pipeFrozen, ttsAudioData, ttsCtxDone, playCtxDone, synthPc,
                   playerPc, mainPc, produced, received, played, rfCancelled>>
ReframerSend ==
    /\ rfPc = "send"
    /\ Len(playbackAudioData.buf) < PlaybackChanCap
    /\ playbackAudioData' = ChanSend(playbackAudioData, FirstFrame(audioBuffer))
    /\ emitted' = Append(emitted, FirstFrame(audioBuffer))
    /\ audioBuffer' = AfterFrame(audioBuffer)
    /\ rfPc' = IF Len(AfterFrame(audioBuffer)) >= chunkSize
               THEN "send" ELSE "select"
    /\ UNCHANGED <<pipeFrozen, ttsAudioData, ttsCtxDone, playCtxDone, synthPc,
                   playerPc, mainPc, produced, received, played, rfCancelled>>

\* main.go:239-255: the input is closed and drained; the remainder, if any,
\* is padded and is then to be sent.
ReframerInputClosed ==
    /\ rfPc = "select"
    /\ ttsAudioData.buf = <<>>
    /\ ttsAudioData.closed
    /\ IF NeedsFlush(audioBuffer)
       THEN /\ audioBuffer' = PadFrame(audioBuffer)
            /\ rfPc' = "flush"
            /\ UNCHANGED <<playbackAudioData, rfCancelled>>
       ELSE /\ ReframerReturn(FALSE)
            /\ UNCHANGED audioBuffer
    /\ UNCHANGED <<pipeFrozen, ttsAudioData, ttsCtxDone, playCtxDone, synthPc,
                   playerPc, mainPc, produced, received, emitted, played>>

\* main.go:248-254: the padded remainder is sent as the last frame.
ReframerFlush ==
    /\ rfPc = "flush"
    /\ Len(playbackAudioData.buf) < PlaybackChanCap
    /\ emitted' = Append(emitted, audioBuffer)
    /\ rfPc' = "done"
    /\ playbackAudioData' = ChanClose(ChanSend(playbackAudioData, audioBuffer))
    /\ UNCHANGED <<pipeFrozen, ttsAudioData, ttsCtxDone, playCtxDone,
                   audioBuffer, synthPc, playerPc, mainPc, produced, received,
                   played, rfCancelled>>

\* main.go:250-251, 265-266, 270-271: playCtx.Done is chosen in a select.
ReframerCancelled ==
    /\ rfPc \in {"select", "send", "flush"}
    /\ playCtxDone
    /\ ReframerReturn(TRUE)
    /\ UNCHANGED <<pipeFrozen, ttsAudioData, ttsCtxDone, playCtxDone,
                   audioBuffer, synthPc, playerPc, mainPc, produced, received,
                   emitted, played>>

\* ---- the player (PlayStream; the loop of part_003:65-95)
PlayerRecv ==
    /\ playerPc = "select"
    /\ playbackAudioData.buf # <<>>
    /\ played' = Append(played, Head(playbackAudioData.buf))
    /\ playbackAudioData' = ChanRecv(playbackAudioData)
    /\ UNCHANGED <<pipeFrozen, ttsAudioData, ttsCtxDone, playCtxDone,
                   audioBuffer, rfPc, synthPc, playerPc, mainPc, produced,
                   received, emitted, rfCancelled>>

\* part_003:69-72: the channel is closed and drained.
PlayerInputClosed ==
    /\ playerPc = "select"
    /\ playbackAudioData.buf = <<>>
    /\ playbackAudioData.closed
    /\ playerPc' = "done"
    /\ UNCHANGED <<pipeFrozen, ttsAudioData, playbackAudioData, ttsCtxDone,
                   playCtxDone, audioBuffer, rfPc, synthPc, mainPc, pipeObs>>

\* part_003:67-68
PlayerCancelled ==
    /\ playerPc = "select"
    /\ playCtxDone
    /\ playerPc' = "cancelled"
    /\ UNCHANGED <<pipeFrozen, ttsAudioData, playbackAudioData, ttsCtxDone,
                   playCtxDone, audioBuffer, rfPc, synthPc, mainPc, pipeObs>>

\* ---- playTTSResponse itself (main.go:276-296)
\* Returning runs the deferred playCancel and ttsCancel (main.go:207, 211).
MainReturn ==
    /\ mainPc' = "done"
    /\ playCtxDone' = TRUE
    /\ ttsCtxDone' = TRUE

\* main.go:278-281: synthesis reported; an error other than
\* context.Canceled ends the call.
MainSynthesisComplete ==
    /\ mainPc = "waitSynth"
    /\ synthPc \in {"done", "failed", "error", "cancelled"}
    /\ IF synthPc \in {"failed", "error"}
       THEN MainReturn
       ELSE /\ mainPc' = "waitPlay"
            /\ UNCHANGED <<playCtxDone, ttsCtxDone>>
    /\ UNCHANGED <<pipeFrozen, ttsAudioData, playbackAudioData, audioBuffer,
                   rfPc, synthPc, playerPc, pipeObs>>

\* main.go:282-283
MainSynthesisTimedOut ==
    /\ mainPc = "waitSynth"
    /\ ttsCtxDone
    /\ MainReturn
    /\ UNCHANGED <<pipeFrozen, ttsAudioData, playbackAudioData, audioBuffer,
                   rfPc, synthPc, playerPc, pipeObs>>

\* main.go:287-296
MainPlaybackComplete ==
    /\ mainPc = "waitPlay"
    /\ playerPc \in {"done", "cancelled"} \/ playCtxDone
    /\ MainReturn
    /\ UNCHANGED <<pipeFrozen, ttsAudioData, playbackAudioData, audioBuffer,
                   rfPc, synthPc, playerPc, pipeObs>>

\* ---- the environment
\* The caller's ctx is cancelled (Ctrl-C): ttsCtx and playCtx derive from it.
CancelOuter ==
    /\ mainPc # "done"
    /\ ~playCtxDone
    /\ playCtxDone' = TRUE
    /\ ttsCtxDone' = TRUE
    /\ UNCHANGED <<pipeFrozen, ttsAudioData, playbackAudioData, audioBuffer,
                   rfPc, synthPc, playerPc, mainPc, pipeObs>>

\* The 30 s timeout of ttsCtx expires (main.go:206).
TtsTimeout ==
    /\ mainPc # "done"
    /\ ~ttsCtxDone
    /\ ttsCtxDone' = TRUE
    /\ UNCHANGED <<pipeFrozen, ttsAudioData, playbackAudioData, playCtxDone,
                   audioBuffer, rfPc, synthPc, playerPc, mainPc, pipeObs>>

PipeNext ==
    \/ SynthStartFails \/ SynthStartOk \/ SynthEmit \/ SynthEOF \/ SynthError
    \/ ReframerRecv \/ ReframerSend \/ ReframerInputClosed \/ ReframerFlush
    \/ ReframerCancelled
    \/ PlayerRecv \/ PlayerInputClosed \/ PlayerCancelled
    \/ MainSynthesisComplete \/ MainSynthesisTimedOut \/ MainPlaybackComplete
    \/ CancelOuter \/ TtsTimeout

SpecReframe == PipeInit /\ [][PipeNext]_vars

(***************************************************************************)
(* Engine.captureUserInput (engine.go:169-224): the loop collects the      *)
(* recognizer's fragments from sttResults until ctx is cancelled, the      *)
(* channel is closed or silenceTimer fires.  Time is a discrete clock; the *)
(* timer fires exactly at its deadline, the goroutines may run late.       *)
(* A text is a sequence of characters.                                     *)
(***************************************************************************)
\* The last instant of the clock.
MaxTime == 5
\* Number of fragments the recognizer emits in one phase.
MaxFragments == 3
\* Capacity of sttResults (10 in engine.go:171), scaled down.
SttChanCap == 2

\* What a recognizer may send: stt.STTClient does not exclude the empty
\* string, and engine.go:208 tests for it.
Fragments == { <<>>, <<"a">>, <<"b", "c">> }

CaptureConfigs ==
    { [SystemPrompt |-> "p", MaxHistorySize |-> 1, SampleRate |-> 0,
       SilenceTimeout |-> t] : t \in {0, 2} }

\* engine.go:197: time.NewTimer(d) at time t.
NewTimer(t, d) == [active |-> TRUE, deadline |-> t + d]

\* engine.go:198, 212: silenceTimer.Stop()
StopTimer(timer) == [timer EXCEPT !.active = FALSE]

\* engine.go:215: silenceTimer.Reset(d) at time t.
ResetTimerKeepsDeadline(timer, t, d) == [timer EXCEPT !.active = TRUE]
ResetTimer(timer, t, d) == [timer EXCEPT !.active = TRUE, !.deadline = t + d]

\* engine.go:208-210: what a received fragment adds to the builder.
AcceptFragmentNoSpace(text, result) ==
    IF result # <<>> THEN text \o result ELSE text
AcceptFragment(text, result) ==
    IF result # <<>> THEN text \o result \o <<" ">> ELSE text

CaptureInit ==
    /\ config \in { NewEngineConfig(c) : c \in CaptureConfigs }
    /\ history = MakeSlice
    /\ snapshot = <<>>
    /\ appended = <<>>
    /\ nOps = 0
    /\ NoReader /\ LockIdle /\ ListenIdle
    /\ EngineIdle /\ StartIdle /\ StopIdle /\ PipeIdle /\ TurnIdle
    /\ capPc = "select"
    /\ capCtxDone = FALSE
    /\ captureCtxDone = FALSE
    /\ sttCtxDone = FALSE
    /\ sttResults = MakeChan
    /\ transcription = <<>>
    /\ silenceTimer = NewTimer(0, config.SilenceTimeout)
    /\ timerC = 0
    /\ now = 0
    /\ recogPc = "run"
    /\ sentFrags = <<>>
    /\ recvFrags = <<>>
    /\ lastAccept = 0
    /\ firedAt = NoTime
    /\ capResult = NoResult

capFrozen ==
    <<histVars, engineVars, startVars, stopVars, pipeVars, pipeObs, turnVars,
      turnObs, rwVars, listenVars>>

\* ---- the recognizer (engine.go:188-193 around StreamRecognize)
\* stt.go:249-255: a recognized text is sent on results.
RecognizerEmit ==
    /\ recogPc = "run"
    /\ Len(sentFrags) < MaxFragments
    /\ Len(sttResults.buf) < SttChanCap
    /\ \E f \in Fragments :
          /\ sttResults' = ChanSend(sttResults, f)
          /\ sentFrags' = Append(sentFrags, f)
    /\ UNCHANGED <<capFrozen, capPc, capCtxDone, captureCtxDone, sttCtxDone,
                   transcription, silenceTimer, timerC, now, recogPc,
                   recvFrags, lastAccept, firedAt, capResult>>

\* stt.go:238 / engine.go:192: the result stream ends and is closed.
RecognizerClose ==
    /\ recogPc = "run"
    /\ recogPc' = "done"
    /\ sttResults' = ChanClose(sttResults)
    /\ UNCHANGED <<capFrozen, capPc, capCtxDone, captureCtxDone, sttCtxDone,
                   transcription, silenceTimer, timerC, now, capObs>>

\* ---- the runtime's timer and clock
\* The deadline of the running timer is reached: a value is put on
\* silenceTimer.C.
TimerFire ==
    /\ silenceTimer.active
    /\ now >= silenceTimer.deadline
    /\ silenceTimer' = StopTimer(silenceTimer)
    /\ timerC' = 1
    /\ firedAt' = now
    /\ UNCHANGED <<capFrozen, capPc, capCtxDone, captureCtxDone, sttCtxDone,
                   sttResults, transcription, now, recogPc, sentFrags,
                   recvFrags, lastAccept, capResult>>

\* One second passes; a timer that is due fires before the clock moves on.
Tick ==
    /\ now < MaxTime
    /\ ~(silenceTimer.active /\ now >= silenceTimer.deadline)
    /\ now' = now + 1
    /\ UNCHANGED <<capFrozen, capPc, capCtxDone, captureCtxDone, sttCtxDone,
                   sttResults, transcription, silenceTimer, timerC, recogPc,
                   capObs>>

\* ---- captureUserInput itself
\* Return: the deferred silenceTimer.Stop(), sttCancel() and
\* captureCancel() run (engine.go:175, 186, 198).  The fragments still
\* queued in sttResults are never received: the channel is local to the
\* call.
CaptureReturn(text, err, by) ==
    /\ capPc' = "returned"
    /\ capResult' = [text |-> text, err |-> err, by |-> by, at |-> now,
                     left |-> sttResults.buf]
    /\ silenceTimer' = StopTimer(silenceTimer)
    /\ captureCtxDone' = TRUE
    /\ sttCtxDone' = TRUE

\* engine.go:202-203
CaptureCtxDone ==
    /\ capPc = "select"
    /\ capCtxDone
    /\ CaptureReturn(<<>>, "ctx", "ctx")
    /\ UNCHANGED <<capFrozen, capCtxDone, sttResults, transcription, timerC,
                   now, recogPc, sentFrags, recvFrags, lastAccept, firedAt>>

\* engine.go:204-205: the receive from sttResults yields !ok, which a
\* closed channel does once its buffer is drained.
ResultsClosedReadyAfterTimer ==
    sttResults.buf = <<>> /\ sttResults.closed /\ timerC > 0
ResultsClosedReady == sttResults.buf = <<>> /\ sttResults.closed

\* engine.go:204-207: sttResults is closed and drained.
CaptureResultsClosed ==
    /\ capPc = "select"
    /\ ResultsClosedReady
    /\ CaptureReturn(transcription, "nil", "closed")
    /\ UNCHANGED <<capFrozen, capCtxDone, sttResults, transcription, timerC,
                   now, recogPc, sentFrags, recvFrags, lastAccept, firedAt>>

\* engine.go:204, 208-216: a fragment is received.  A non-empty one is
\* written to the builder with a space and restarts the timer: Stop, the
\* drain of silenceTimer.C if Stop reported a timer no longer running (the
\* drain blocks while the channel is empty), Reset.
CaptureRecv ==
    /\ capPc = "select"
    /\ sttResults.buf # <<>>
    /\ LET result == Head(sttResults.buf)
       IN /\ recvFrags' = Append(recvFrags, result)
          /\ transcription' = AcceptFragment(transcription, result)
          /\ IF result # <<>>
             THEN /\ silenceTimer.active \/ timerC > 0
                  /\ silenceTimer' = ResetTimer(StopTimer(silenceTimer), now,
                                                config.SilenceTimeout)
                  /\ timerC' = 0
                  /\ lastAccept' = now
             ELSE UNCHANGED <<silenceTimer, timerC, lastAccept>>
    /\ sttResults' = ChanRecv(sttResults)
    /\ UNCHANGED <<capFrozen, capPc, capCtxDone, captureCtxDone, sttCtxDone,
                   now, recogPc, sentFrags, firedAt, capResult>>

\* engine.go:221: return transcription.String(), nil
TimeoutResultIsError(text) == [text |-> <<>>, err |-> "timeout"]
TimeoutResult(text) == [text |-> text, err |-> "nil"]

\* engine.go:217-221: the silence timeout.
CaptureTimeout ==
    /\ capPc = "select"
    /\ timerC > 0
    /\ timerC' = 0
    /\ CaptureReturn(TimeoutResult(transcription).text,
                     TimeoutResult(transcription).err, "timeout")
    /\ UNCHANGED <<capFrozen, capCtxDone, sttResults, transcription, now,
                   recogPc, sentFrags, recvFrags, lastAccept, firedAt>>

\* ---- the environment
\* The ctx given to captureUserInput is cancelled; captureCtx and sttCtx
\* derive from it (engine.go:174, 185).
CancelCaptureCtx ==
    /\ capPc = "select"
    /\ ~capCtxDone
    /\ capCtxDone' = TRUE
    /\ captureCtxDone' = TRUE
    /\ sttCtxDone' = TRUE
    /\ UNCHANGED <<capFrozen, capPc, sttResults, transcription, silenceTimer,
                   timerC, now, recogPc, capObs>>

CaptureNext ==
    \/ RecognizerEmit \/ RecognizerClose
    \/ TimerFire \/ Tick
    \/ CaptureCtxDone \/ CaptureResultsClosed \/ CaptureRecv \/ CaptureTimeout
    \/ CancelCaptureCtx

SpecCapture == CaptureInit /\ [][CaptureNext]_vars

(***************************************************************************)
(* The goroutines of a listening phase (engine.go:169-193): the one        *)
(* running StartCapture (portaudio.go:63-95, the same code as              *)
(* audio.go:86-118), which the Engine follows with close(audioData); the   *)
(* one running StreamRecognize (stt.go:188-275), which the Engine follows  *)
(* with close(sttResults); the goroutine StreamRecognize starts to forward *)
(* the recognized texts (stt.go:237-257), which closes results when it     *)
(* returns; and captureUserInput's own loop, taken here without its clock: *)
(* the silence timer fires at some moment.  The captured chunks are        *)
(* numbered in the order they were read from the device.                   *)
(***************************************************************************)
\* Capacity of audioData (100 in engine.go:170), scaled down.
AudioChanCap == 1
\* Chunks read from the device in one phase.
MaxCaptures == 3

\* The text of a final recognition result; stt.go:251 forwards no empty one.
FinalText == <<"a">>

\* portaudio.go:85-91: the default case of a select is taken only when no
\* other case is ready.
DefaultTakenNever(ch, done) == FALSE
DefaultTaken(ch, done) == Len(ch.buf) >= AudioChanCap /\ ~done

ListenInit ==
    /\ config \in { NewEngineConfig(c) : c \in StartConfigs }
    /\ history = MakeSlice
    /\ snapshot = <<>>
    /\ appended = <<>>
    /\ nOps = 0
    /\ NoReader /\ LockIdle
    /\ EngineIdle /\ StartIdle /\ StopIdle /\ PipeIdle /\ TurnIdle
    /\ capPc = "select"
    /\ capCtxDone = FALSE
    /\ captureCtxDone = FALSE
    /\ sttCtxDone = FALSE
    /\ sttResults = MakeChan
    /\ transcription = <<>>
    /\ silenceTimer = [active |-> FALSE, deadline |-> 0]
    /\ timerC = 0
    /\ now = 0
    /\ recogPc = "idle"
    /\ sentFrags = <<>>
    /\ recvFrags = <<>>
    /\ lastAccept = 0
    /\ firedAt = NoTime
    /\ capResult = NoResult
    /\ audioData = MakeChan
    /\ micPc = "start"
    /\ feedPc = "start"
    /\ fwdPc = "idle"
    /\ nCaptured = 0
    /\ dropped = <<>>
    /\ fed = <<>>

\* What a step of the capture goroutine leaves alone.
micFrozen ==
    <<histVars, engineVars, startVars, stopVars, pipeVars, pipeObs, turnVars,
      turnObs, rwVars, capVars, capObs, feedPc, fwdPc, fed>>

\* What a step of the recognition goroutines leaves alone.
sttFrozen ==
    <<histVars, engineVars, startVars, stopVars, pipeVars, pipeObs, turnObs,
      rwVars, turnPc, turnCtxDone, turnInput, turnReply, turnErr, closerPc,
      loopResult, nRounds, capPc, capCtxDone, captureCtxDone, sttCtxDone,
      transcription, silenceTimer, timerC, now, recogPc, recvFrags,
      lastAccept, firedAt, capResult, micPc, nCaptured, dropped>>

\* ---- StartCapture and the goroutine around it (engine.go:177-182)
\* portaudio.go:64-70: no stream, or the stream does not start.
MicStartFails ==
    /\ ~panicked
    /\ micPc = "start"
    /\ micPc' = "returned"
    /\ UNCHANGED <<micFrozen, audioData, nCaptured, dropped>>

\* portaudio.go:68-71
MicStartOk ==
    /\ ~panicked
    /\ micPc = "start"
    /\ micPc' = "select"
    /\ UNCHANGED <<micFrozen, audioData, nCaptured, dropped>>

\* portaudio.go:73-83: ctx.Done ends the capture, otherwise a chunk is read
\* from the device.
MicSelect ==
    /\ ~panicked
    /\ micPc = "select"
    /\ IF captureCtxDone
       THEN micPc' = "returned" /\ UNCHANGED nCaptured
       ELSE /\ nCaptured < MaxCaptures
            /\ nCaptured' = nCaptured + 1
            /\ micPc' = "send"
    /\ UNCHANGED <<micFrozen, audioData, dropped>>

\* portaudio.go:85-91: the chunk is sent when audioData has room, the
\* capture returns when ctx.Done is ready, and when neither is ready the
\* chunk is dropped.
MicSend ==
    /\ ~panicked
    /\ micPc = "send"
    /\ \/ /\ Len(audioData.buf) < AudioChanCap
          /\ audioData' = ChanSend(audioData, nCaptured)
          /\ micPc' = "select"
          /\ UNCHANGED dropped
       \/ /\ captureCtxDone
          /\ micPc' = "returned"
          /\ UNCHANGED <<audioData, dropped>>
       \/ /\ DefaultTaken(audioData, captureCtxDone)
          /\ dropped' = Append(dropped, [chunk |-> nCaptured,
                                         queue |-> audioData.buf])
          /\ micPc' = "select"
          /\ UNCHANGED audioData
    /\ UNCHANGED <<micFrozen, nCaptured>>

\* engine.go:181: close(audioData), once StartCapture has returned.
MicClose ==
    /\ ~panicked
    /\ micPc = "returned"
    /\ audioData' = ChanClose(audioData)
    /\ micPc' = "closed"
    /\ UNCHANGED <<micFrozen, nCaptured, dropped>>

\* ---- StreamRecognize and the goroutine around it (engine.go:188-193)
\* stt.go:197-200, 232-234: the stream cannot be created or the session
\* options cannot be sent; no forwarding goroutine is started.
FeedStartFails ==
    /\ ~panicked
    /\ feedPc = "start"
    /\ feedPc' = "returned"
    /\ UNCHANGED <<sttFrozen, panicked, sttResults, sentFrags, audioData,
                   fwdPc, fed>>

\* stt.go:197-237: the stream is set up, the forwarding goroutine starts.
FeedStartOk ==
    /\ ~panicked
    /\ feedPc = "start"
    /\ feedPc' = "range"
    /\ fwdPc' = "recv"
    /\ UNCHANGED <<sttFrozen, panicked, sttResults, sentFrags, audioData, fed>>

\* stt.go:260-272: a chunk is taken from audioData and sent to the service;
\* a failed Send ends StreamRecognize.
FeedChunk ==
    /\ ~panicked
    /\ feedPc = "range"
    /\ audioData.buf # <<>>
    /\ fed' = Append(fed, Head(audioData.buf))
    /\ audioData' = ChanRecv(audioData)
    /\ feedPc' \in {"range", "returned"}
    /\ UNCHANGED <<sttFrozen, panicked, sttResults, sentFrags, fwdPc>>

\* stt.go:260, 274: audioData is closed and drained, the range loop ends.
FeedEnd ==
    /\ ~panicked
    /\ feedPc = "range"
    /\ audioData.buf = <<>>
    /\ audioData.closed
    /\ feedPc' = "returned"
    /\ UNCHANGED <<sttFrozen, panicked, sttResults, sentFrags, audioData,
                   fwdPc, fed>>

\* close(ch): closing a closed channel panics.
CloseOrPanic(ch) == IF ch.closed THEN "panic" ELSE "closed"

\* engine.go:192: close(sttResults), once StreamRecognize has returned.
ResultsClose ==
    /\ ~panicked
    /\ feedPc = "returned"
    /\ feedPc' = CloseOrPanic(sttResults)
    /\ panicked' = sttResults.closed
    /\ sttResults' = ChanClose(sttResults)
    /\ UNCHANGED <<sttFrozen, sentFrags, audioData, fwdPc, fed>>

\* ---- the forwarding goroutine (stt.go:237-257)
\* stt.go:240-251: a final result with a text is received.
FwdFinal ==
    /\ ~panicked
    /\ fwdPc = "recv"
    /\ Len(sentFrags) < MaxFragments
    /\ fwdPc' = "send"
    /\ UNCHANGED <<sttFrozen, panicked, sttResults, sentFrags, audioData,
                   feedPc, fed>>

\* stt.go:252: results <- text.  The send waits while the channel is full;
\* a send on a closed channel panics.
FwdSend ==
    /\ ~panicked
    /\ fwdPc = "send"
    /\ IF sttResults.closed
       THEN /\ panicked' = TRUE
            /\ fwdPc' = "panic"
            /\ UNCHANGED <<sttResults, sentFrags>>
       ELSE /\ Len(sttResults.buf) < SttChanCap
            /\ sttResults' = ChanSend(sttResults, FinalText)
            /\ sentFrags' = Append(sentFrags, FinalText)
            /\ fwdPc' = "recv"
            /\ UNCHANGED panicked
    /\ UNCHANGED <<sttFrozen, audioData, feedPc, fed>>

\* stt.go:238, 240-247: Recv returns io.EOF or an error (the service ended
\* the stream, sttCtx was cancelled); the deferred close(results) runs.
FwdEnd ==
    /\ ~panicked
    /\ fwdPc = "recv"
    /\ fwdPc' = (IF sttResults.closed THEN "panic" ELSE "done")
    /\ panicked' = sttResults.closed
    /\ sttResults' = ChanClose(sttResults)
    /\ UNCHANGED <<sttFrozen, sentFrags, audioData, feedPc, fed>>

\* ---- the loop of captureUserInput (engine.go:200-223)
\* engine.go:204, 208-216: a text is received and written to the builder.
ListenRecv ==
    /\ ~panicked
    /\ capPc = "select"
    /\ sttResults.buf # <<>>
    /\ recvFrags' = Append(recvFrags, Head(sttResults.buf))
    /\ transcription' = AcceptFragment(transcription, Head(sttResults.buf))
    /\ sttResults' = ChanRecv(sttResults)
    /\ UNCHANGED <<capFrozen, capPc, capCtxDone, captureCtxDone, sttCtxDone,
                   silenceTimer, timerC, now, recogPc, sentFrags, lastAccept,
                   firedAt, capResult>>

\* engine.go:202-207, 217-221: captureUserInput returns, because ctx is
\* cancelled, because sttResults is closed and drained, or because the
\* silence timer fired; its deferred calls cancel captureCtx and sttCtx.
ListenReturn ==
    /\ ~panicked
    /\ capPc = "select"
    /\ \/ capCtxDone /\ CaptureReturn(<<>>, "ctx", "ctx")
       \/ ResultsClosedReady /\ CaptureReturn(transcription, "nil", "closed")
       \/ CaptureReturn(TimeoutResult(transcription).text,
                        TimeoutResult(transcription).err, "timeout")
    /\ UNCHANGED <<capFrozen, capCtxDone, sttResults, transcription, timerC,
                   now, recogPc, sentFrags, recvFrags, lastAccept, firedAt>>

\* The ctx given to captureUserInput is cancelled.
ListenCancel == ~panicked /\ CancelCaptureCtx

\* A panic ends the process and every goroutine with it: no action is
\* enabled once panicked holds.
ListenNext ==
    \/ MicStartFails \/ MicStartOk \/ MicSelect \/ MicSend \/ MicClose
    \/ FeedStartFails \/ FeedStartOk \/ FeedChunk \/ FeedEnd
    \/ ResultsClose
    \/ FwdFinal \/ FwdSend \/ FwdEnd
    \/ ListenRecv \/ ListenReturn \/ ListenCancel

SpecListen == ListenInit /\ [][ListenNext]_vars

\* The scheduler keeps running a goroutine that can take a step; the device
\* keeps delivering chunks, so StartCapture gets to its selects; the silence
\* timer fires in the end; and Recv returns once sttCtx is cancelled or
\* StreamRecognize has returned and its deferred CloseSend has run.
SpecListenFair ==
    /\ SpecListen
    /\ WF_vars(MicStartFails \/ MicStartOk)
    /\ WF_vars(MicSelect) /\ WF_vars(MicSend) /\ WF_vars(MicClose)
    /\ WF_vars(FeedStartFails \/ FeedStartOk)
    /\ WF_vars(FeedChunk \/ FeedEnd)
    /\ WF_vars(ResultsClose)
    /\ WF_vars(FwdSend)
    /\ WF_vars(FwdEnd /\ (sttCtxDone \/ feedPc \in {"returned", "closed"}))
    /\ WF_vars(ListenRecv) /\ WF_vars(ListenReturn)

(***************************************************************************)
(* One goroutine inside the loop of Engine.Start (engine.go:114-128),      *)
(* followed through its turns: processConversationCycle (132-166) and,     *)
(* inside it, speakResponse (233-256) with the synthesizer goroutine, the  *)
(* goroutine that closes audioData after it (247-252) and PlayStream.      *)
(* speakResponse's audioData is ttsAudioData here, its ttsCtx ttsCtxDone;  *)
(* PlayStream is the receive loop of PortaudioPlayer (part_003:55-96).     *)
(* captureUserInput is taken by its outcomes, which the listening phase    *)
(* above produces.                                                         *)
(***************************************************************************)
\* Turns the loop begins in one behaviour.
MaxRounds == 3

\* Texts captureUserInput returns: nothing, a blank fragment and its space,
\* a word and its space.
CapturedTexts == { <<>>, <<" ", " ">>, <<"a", " ">> }

RECURSIVE TrimLeft(_)
TrimLeft(t) ==
    IF t # <<>> /\ Head(t) = " " THEN TrimLeft(Tail(t)) ELSE t

RECURSIVE TrimRight(_)
TrimRight(t) ==
    IF t # <<>> /\ t[Len(t)] = " " THEN TrimRight(SubSeq(t, 1, Len(t) - 1))
    ELSE t

\* strings.TrimSpace
TrimSpace(t) == TrimRight(TrimLeft(t))

\* engine.go:139: strings.TrimSpace(userInput) == ""
IsBlankOnlyIfEmpty(t) == t = <<>>
IsBlank(t) == TrimSpace(t) = <<>>

\* The replies gptClient.Complete gives.
TurnReplies == {"r1", "r2"}

TurnConfigs ==
    { [SystemPrompt |-> "p", MaxHistorySize |-> 2, SampleRate |-> 0,
       SilenceTimeout |-> 0] }

\* buildSystemMessage (engine.go:259-280).  The message is the list of its
\* pieces, <<label, text>> for each Sprintf or WriteString.
RECURSIVE HistoryLinesNewestFirst(_)
HistoryLinesNewestFirst(es) ==
    IF es = <<>> THEN <<>>
    ELSE HistoryLinesNewestFirst(Tail(es))
            \o << <<"User: ", Head(es).UserInput>>,
                  <<"Assistant: ", Head(es).AIResponse>>,
                  <<"---", "">> >>
RECURSIVE HistoryLines(_)
HistoryLines(es) ==
    IF es = <<>> THEN <<>>
    ELSE << <<"User: ", Head(es).UserInput>>,
            <<"Assistant: ", Head(es).AIResponse>>,
            <<"---", "">> >> \o HistoryLines(Tail(es))

buildSystemMessageBody(h, prompt) ==
    (IF h.len > 0
     THEN << <<"Previous conversation history:", "">> >>
            \o HistoryLines(SliceElems(h)) \o << <<"", "">> >>
     ELSE <<>>) \o << <<"", prompt>> >>

buildSystemMessage == buildSystemMessageBody(history, config.SystemPrompt)

SynthTerminated == synthPc \in {"done", "failed", "error", "cancelled"}

\* The chunk lengths followed through a turn: empty, shorter than a frame,
\* a frame.
TurnChunkLens == {0, 1, chunkSize}

TurnSynthEmit == SynthEmitOf(TurnChunkLens)

TurnInit ==
    /\ config \in { NewEngineConfig(c) : c \in TurnConfigs }
    /\ history = MakeSlice
    /\ snapshot = <<>>
    /\ appended = <<>>
    /\ nOps = 0
    /\ NoReader /\ LockIdle /\ ListenIdle
    /\ isRunning = TRUE
    /\ runningMutex = "free"
    /\ audioStreamer = [initialized |-> 1, open |-> 1]
    /\ soundPlayer = [initialized |-> 1]
    /\ sttClient = "open"
    /\ ttsClient = "open"
    /\ StartIdle /\ StopIdle /\ PipeIdle /\ CaptureIdle
    /\ turnPc = "loop"
    /\ turnCtxDone = FALSE
    /\ turnInput = <<>>
    /\ turnReply = ""
    /\ turnErr = "nil"
    /\ closerPc = "idle"
    /\ panicked = FALSE
    /\ loopResult = "none"
    /\ nRounds = 0
    /\ turnLog = {}
    /\ turnOutcome = "none"
    /\ turnBase = 0
    /\ genCalls = <<>>

turnFrozen ==
    <<engineVars, startVars, stopVars, capVars, capObs, playbackAudioData,
      playCtxDone, audioBuffer, rfPc, mainPc, received, emitted, rfCancelled,
      config, snapshot, nOps, held, histLog, rwVars, listenVars>>

\* engine.go:114-120: ctx.Done ends Start, otherwise a turn begins.
TurnLoopSelect ==
    /\ ~panicked
    /\ turnPc = "loop"
    /\ IF turnCtxDone
       THEN /\ turnPc' = "returned"
            /\ loopResult' = "Canceled"
            /\ UNCHANGED <<nRounds, turnObs>>
       ELSE /\ nRounds < MaxRounds
            /\ nRounds' = nRounds + 1
            /\ turnPc' = "capture"
            /\ turnLog' = {}
            /\ turnOutcome' = "running"
            /\ turnBase' = Len(appended)
            /\ genCalls' = <<>>
            /\ UNCHANGED loopResult
    /\ UNCHANGED <<turnFrozen, history, appended, pipeVars, pipeObs,
                   turnCtxDone, turnInput, turnReply, turnErr, closerPc,
                   panicked>>

\* What captureUserInput can return: ctx.Err() with no text, which takes a
\* cancelled ctx (engine.go:202-203), or a text with no error (206, 221).
CaptureResults(done) ==
    (IF done THEN { [text |-> <<>>, err |-> "ctx"] } ELSE {})
        \cup { [text |-> t, err |-> "nil"] : t \in CapturedTexts }

\* engine.go:135: err != nil
CaptureFailedNever(res) == FALSE
CaptureFailed(res) == res.err # "nil"

\* engine.go:134-141: captureUserInput returns; its error ends the turn, a
\* blank text ends it too.
TurnCapture ==
    /\ ~panicked
    /\ turnPc = "capture"
    /\ \E res \in CaptureResults(turnCtxDone) :
          /\ turnInput' = res.text
          /\ turnLog' = IF res.err = "ctx"
                        THEN turnLog \cup {"captureCancelled"} ELSE turnLog
          /\ IF CaptureFailed(res)
             THEN /\ turnErr' = "capture"
                  /\ turnPc' = "cycleErr"
                  /\ turnOutcome' = "cancelled"
             ELSE /\ UNCHANGED turnErr
                  /\ IF IsBlank(res.text)
                     THEN turnPc' = "loop" /\ turnOutcome' = "skipped"
                     ELSE turnPc' = "generate" /\ UNCHANGED turnOutcome
    /\ UNCHANGED <<turnFrozen, history, appended, pipeVars, pipeObs,
                   turnCtxDone, turnReply, closerPc, panicked, loopResult,
                   nRounds, turnBase, genCalls>>

\* engine.go:146-149: gptClient.Complete answers or fails.
TurnGenerate ==
    /\ ~panicked
    /\ turnPc = "generate"
    /\ turnLog' = turnLog \cup {"generate"}
    /\ genCalls' = Append(genCalls,
                          [systemMessage |-> buildSystemMessage,
                           userInput |-> turnInput,
                           history |-> SliceElems(history)])
    /\ \/ /\ \E r \in TurnReplies : turnReply' = r
          /\ turnPc' = "speak"
          /\ UNCHANGED <<turnErr, turnOutcome>>
       \/ /\ turnErr' = "generate"
          /\ turnPc' = "cycleErr"
          /\ turnOutcome' = "generateFailed"
          /\ UNCHANGED turnReply
    /\ UNCHANGED <<turnFrozen, history, appended, pipeVars, pipeObs,
                   turnCtxDone, turnInput, closerPc, panicked, loopResult,
                   nRounds, turnBase>>

\* engine.go:233-255: speakResponse makes audioData and ttsCtx, starts the
\* synthesizer goroutine and calls PlayStream.  The goroutines of an
\* earlier turn have finished.
TurnSpeak ==
    /\ ~panicked
    /\ turnPc = "speak"
    /\ synthPc = "idle" \/ SynthTerminated
    /\ closerPc \in {"idle", "closed"}
    /\ turnPc' = "play"
    /\ ttsAudioData' = MakeChan
    /\ ttsCtxDone' = turnCtxDone
    /\ synthPc' = "start"
    /\ closerPc' = "wait"
    /\ playerPc' = "start"
    /\ produced' = <<>>
    /\ played' = <<>>
    /\ turnLog' = turnLog \cup {"synthesize", "play"}
    /\ UNCHANGED <<turnFrozen, history, appended, turnCtxDone, turnInput,
                   turnReply, turnErr, panicked, loopResult, nRounds,
                   turnOutcome, turnBase, genCalls>>

\* engine.go:248-251: once SynthesizeToStreamWithContext has returned, the
\* goroutine closes audioData; closing a closed channel panics.
CloseAudioData ==
    /\ ~panicked
    /\ closerPc = "wait"
    /\ SynthTerminated
    /\ IF ttsAudioData.closed
       THEN /\ panicked' = TRUE
            /\ closerPc' = "panic"
            /\ UNCHANGED ttsAudioData
       ELSE /\ ttsAudioData' = ChanClose(ttsAudioData)
            /\ closerPc' = "closed"
            /\ UNCHANGED panicked
    /\ UNCHANGED <<turnFrozen, history, appended, ttsCtxDone, synthPc,
                   playerPc, produced, played, turnPc, turnCtxDone, turnInput,
                   turnReply, turnErr, loopResult, nRounds, turnObs>>

\* PlayStream returns err and with it speakResponse (engine.go:255); the
\* deferred ttsCancel runs (238), the turn goes on (154-156).
PlayStreamReturn(outcome, err) ==
    /\ playerPc' = outcome
    /\ ttsCtxDone' = TRUE
    /\ IF err = "nil"
       THEN /\ turnPc' = "record"
            /\ UNCHANGED <<turnErr, turnOutcome>>
       ELSE /\ turnPc' = "cycleErr"
            /\ turnErr' = "speak"
            /\ turnOutcome' = err

\* part_003:56-62: the device does not start.
PlayStreamFails ==
    /\ ~panicked
    /\ turnPc = "play"
    /\ playerPc = "start"
    /\ PlayStreamReturn("failed", "playFailed")
    /\ UNCHANGED <<turnFrozen, history, appended, ttsAudioData, synthPc,
                   produced, played, turnCtxDone, turnInput, turnReply,
                   closerPc, panicked, loopResult, nRounds, turnLog, turnBase, genCalls>>

\* part_003:60-65: the device starts.
PlayStreamStarts ==
    /\ ~panicked
    /\ turnPc = "play"
    /\ playerPc = "start"
    /\ playerPc' = "select"
    /\ UNCHANGED <<turnFrozen, history, appended, ttsAudioData, ttsCtxDone,
                   synthPc, produced, played, turnVars, turnObs>>

\* part_003:69-93: a byte sequence is received and written to the device.
PlayStreamRecv ==
    /\ ~panicked
    /\ turnPc = "play"
    /\ playerPc = "select"
    /\ ttsAudioData.buf # <<>>
    /\ played' = Append(played, Head(ttsAudioData.buf))
    /\ ttsAudioData' = ChanRecv(ttsAudioData)
    /\ UNCHANGED <<turnFrozen, history, appended, ttsCtxDone, synthPc,
                   playerPc, produced, turnVars, turnObs>>

\* part_003:69-70: the receive from audioData yields !ok.
AudioDataEndedWhenEmpty == ttsAudioData.buf = <<>>
AudioDataEnded == ttsAudioData.buf = <<>> /\ ttsAudioData.closed

\* part_003:69-72: audioData is closed and drained: playback is complete.
PlayStreamClosed ==
    /\ ~panicked
    /\ turnPc = "play"
    /\ playerPc = "select"
    /\ AudioDataEnded
    /\ PlayStreamReturn("done", "nil")
    /\ UNCHANGED <<turnFrozen, history, appended, ttsAudioData, synthPc,
                   produced, played, turnCtxDone, turnInput, turnReply,
                   closerPc, panicked, loopResult, nRounds, turnLog, turnBase, genCalls>>

\* part_003:67-68: ctx.Done is chosen.
PlayStreamCancelled ==
    /\ ~panicked
    /\ turnPc = "play"
    /\ playerPc = "select"
    /\ turnCtxDone
    /\ PlayStreamReturn("cancelled", "playCancelled")
    /\ UNCHANGED <<turnFrozen, history, appended, ttsAudioData, synthPc,
                   produced, played, turnCtxDone, turnInput, turnReply,
                   closerPc, panicked, loopResult, nRounds, turnLog, turnBase, genCalls>>

\* engine.go:159-165: the exchange is added to the history.
TurnRecordTwice ==
    /\ ~panicked
    /\ turnPc = "record"
    /\ LET entry == [UserInput |-> turnInput, AIResponse |-> turnReply,
                     Timestamp |-> nRounds]
       IN /\ history' = addToHistoryBody(
                            addToHistoryBody(history, entry,
                                             config.MaxHistorySize),
                            entry, config.MaxHistorySize)
          /\ appended' = Append(Append(appended, entry), entry)
    /\ turnLog' = turnLog \cup {"append"}
    /\ turnOutcome' = "recorded"
    /\ turnPc' = "loop"
    /\ UNCHANGED <<turnFrozen, pipeVars, pipeObs, turnCtxDone, turnInput,
                   turnReply, turnErr, closerPc, panicked, loopResult,
                   nRounds, turnBase, genCalls>>
TurnRecord ==
    /\ ~panicked
    /\ turnPc = "record"
    /\ LET entry == [UserInput |-> turnInput, AIResponse |-> turnReply,
                     Timestamp |-> nRounds]
       IN /\ history' = addToHistoryBody(history, entry, config.MaxHistorySize)
          /\ appended' = Append(appended, entry)
    /\ turnLog' = turnLog \cup {"append"}
    /\ turnOutcome' = "recorded"
    /\ turnPc' = "loop"
    /\ UNCHANGED <<turnFrozen, pipeVars, pipeObs, turnCtxDone, turnInput,
                   turnReply, turnErr, closerPc, panicked, loopResult,
                   nRounds, turnBase, genCalls>>

\* engine.go:123: ctx.Err() != nil
StopsAfterErrorAlways(done) == TRUE
StopsAfterError(done) == done

\* engine.go:120-126: a failed turn ends Start only when ctx is cancelled.
TurnCycleError ==
    /\ ~panicked
    /\ turnPc = "cycleErr"
    /\ turnErr' = "nil"
    /\ IF StopsAfterError(turnCtxDone)
       THEN turnPc' = "returned" /\ loopResult' = "Canceled"
       ELSE turnPc' = "loop" /\ UNCHANGED loopResult
    /\ UNCHANGED <<turnFrozen, history, appended, pipeVars, pipeObs,
                   turnCtxDone, turnInput, turnReply, closerPc, panicked,
                   nRounds, turnObs>>

\* The owner of Start's ctx cancels it; a live ttsCtx derives from it.
TurnCancel ==
    /\ ~panicked
    /\ turnPc \notin {"idle", "returned"}
    /\ ~turnCtxDone
    /\ turnCtxDone' = TRUE
    /\ ttsCtxDone' = (ttsCtxDone \/ synthPc # "idle")
    /\ turnLog' = IF turnPc \in {"speak", "play"}
                  THEN turnLog \cup {"cancelledWhileSpeaking"} ELSE turnLog
    /\ UNCHANGED <<turnFrozen, history, appended, ttsAudioData, synthPc,
                   playerPc, produced, played, turnPc, turnInput, turnReply,
                   turnErr, closerPc, panicked, loopResult, nRounds,
                   turnOutcome, turnBase, genCalls>>

TurnNext ==
    \/ TurnLoopSelect \/ TurnCapture \/ TurnGenerate \/ TurnSpeak
    \/ SynthStartFails \/ SynthStartOk \/ TurnSynthEmit \/ SynthEOF
    \/ SynthError \/ CloseAudioData
    \/ PlayStreamFails \/ PlayStreamStarts \/ PlayStreamRecv
    \/ PlayStreamClosed \/ PlayStreamCancelled
    \/ TurnRecord \/ TurnCycleError \/ TurnCancel

SpecTurn == TurnInit /\ [][TurnNext]_vars

\* The scheduler keeps running a goroutine that can take a step: the loop
\* itself, the goroutine that closes audioData, PlayStream; captureUserInput
\* returns (its timer or ctx.Done ends it), and the synthesizer's stream
\* ends or fails.  gptClient.Complete takes no ctx and no timeout
\* (engine.go:229), so nothing makes it return.
SpecTurnFair ==
    /\ SpecTurn
    /\ WF_vars(TurnLoopSelect) /\ WF_vars(TurnCycleError)
    /\ WF_vars(TurnRecord) /\ WF_vars(TurnSpeak) /\ WF_vars(TurnCapture)
    /\ WF_vars(SynthStartFails \/ SynthStartOk)
    /\ WF_vars(SynthEOF \/ SynthError)
    /\ WF_vars(CloseAudioData)
    /\ WF_vars(PlayStreamFails \/ PlayStreamStarts)
    /\ WF_vars(PlayStreamRecv) /\ WF_vars(PlayStreamClosed)
    /\ WF_vars(PlayStreamCancelled)

(***************************************************************************)
(* Claims about Start, IsRunning and Stop.                                 *)
(***************************************************************************)
\* A call has decided at the run-state guard (engine.go:82).
Decided(p) == guardOutcome[p] # "none" \/ pc[p] = "set"

\* C3 (as amended): at no time are two Start calls past the run-state guard,
\* and a Start call fails with the already-running error exactly when
\* another call was past the guard, not yet returned, as it reached the
\* guard; otherwise it becomes the Running call.
C3_OneStartAtATime ==
    /\ Cardinality(PastGuardCallers) <= 1
    /\ \A p \in Callers :
          Decided(p) => (guardOutcome[p] = "already" <=> sawRunning[p] # {})
    /\ \A p \in Callers :
          guardOutcome[p] = "already" <=> startResult[p] = "AlreadyRunning"

\* C3 witness: one call runs the turn loop, the other one, made while the
\* first was running, has failed with the already-running error.
C3_Witness ==
    \E p \in Callers, q \in Callers :
        /\ p # q
        /\ guardOutcome[p] = "passed" /\ pc[p] = "capture"
        /\ startResult[q] = "AlreadyRunning" /\ sawRunning[q] = {p}

\* C3 (as claimed): of two concurrent Start calls that have both left the
\* guard, exactly one became Running and exactly one failed with the
\* already-running error.
C3_Original ==
    \A p \in Callers, q \in Callers :
        (/\ p # q
         /\ q \in concurrent[p]
         /\ guardOutcome[p] # "none"
         /\ guardOutcome[q] # "none")
        => {guardOutcome[p], guardOutcome[q]} = {"passed", "already"}

\* C4: IsRunning is true exactly while a Start call is between passing its
\* guard and returning; once that call has returned, through an
\* initialization failure or a cancellation, the engine is NotRunning.
C4_RunningWhileStartActive == IsRunning <=> PastGuardCallers # {}

\* C4 witness: a call that was Running has returned on cancellation, another
\* one on an initialization failure, and the engine is NotRunning again.
C4_Witness ==
    /\ ~IsRunning
    /\ \E p \in Callers, q \in Callers :
          /\ guardOutcome[p] = "passed" /\ pc[p] = "idle"
          /\ startResult[p] = "Canceled"
          /\ guardOutcome[q] = "passed" /\ pc[q] = "idle"
          /\ startResult[q] = "InitError"

\* C21: when audioStreamer.Initialize, audioStreamer.Open or
\* soundPlayer.Initialize fails, Start returns that error without reaching
\* the loop: the call begins no capture, recognition, generation, synthesis
\* or playback, and appends nothing.
C21_InitFailureBeforeLoop ==
    \A p \in Callers :
        startResult[p] = "InitError" =>
            /\ pc[p] \in {"return", "idle"}
            /\ callLog[p] = {}

\* C21 witness: a call that became the Running call has returned an
\* initialization error.
C21_Witness ==
    \E p \in Callers :
        /\ startResult[p] = "InitError"
        /\ pc[p] = "idle"
        /\ guardOutcome[p] = "passed"

\* The step in which p's Start call finds the engine Running.
Refused(p) == guardOutcome[p] # "already" /\ guardOutcome'[p] = "already"

\* C25: a Start call that finds the engine Running returns the
\* already-running error in that very step and changes nothing: the engine
\* is still Running, no collaborator is initialized, opened, closed or
\* terminated, the history is as it was, and the call has begun no turn step
\* and registered no deferred release.
C25_RefusedStartChangesNothing ==
    /\ [](\A p \in Callers :
            guardOutcome[p] = "already" =>
                /\ startResult[p] = "AlreadyRunning"
                /\ pc[p] = "idle"
                /\ callLog[p] = {}
                /\ defers[p] = <<>>)
    /\ [][\A p \in Callers :
            Refused(p) =>
                /\ isRunning /\ isRunning'
                /\ UNCHANGED <<audioStreamer, soundPlayer, sttClient,
                               ttsClient, histVars>>]_vars

\* C25 witness: a call was refused while the other call is in its loop with
\* its collaborators acquired.
C25_Witness ==
    \E p \in Callers, q \in Callers :
        /\ guardOutcome[p] = "already"
        /\ pc[q] = "generate"
        /\ isRunning
        /\ audioStreamer = [initialized |-> 1, open |-> 1]
        /\ soundPlayer = [initialized |-> 1]

\* The statements of Start inside its loop, all three collaborators acquired.
LoopPcs == {"loop", "capture", "generate", "speak", "record", "cycleErr"}

\* C39: what a Start call acquired (audioStreamer.Initialize,
\* audioStreamer.Open, soundPlayer.Initialize) it holds through its loop and
\* releases exactly once before it returns, the last acquired first; what it
\* failed to acquire or never tried to acquire it does not release.  So no
\* collaborator is ever released more often than acquired, the player is
\* held only while the stream is open, the stream is open only while the
\* audio system is initialized, and nothing is held once no call is past
\* the guard.
C39_AcquiredReleasedOnceInReverse ==
    /\ audioStreamer.initialized \in {0, 1}
    /\ audioStreamer.open \in {0, 1}
    /\ soundPlayer.initialized \in {0, 1}
    /\ soundPlayer.initialized <= audioStreamer.open
    /\ audioStreamer.open <= audioStreamer.initialized
    /\ PastGuardCallers = {} =>
          /\ audioStreamer = [initialized |-> 0, open |-> 0]
          /\ soundPlayer = [initialized |-> 0]
    /\ \A p \in Callers :
          pc[p] \in LoopPcs =>
              /\ audioStreamer = [initialized |-> 1, open |-> 1]
              /\ soundPlayer = [initialized |-> 1]
    /\ \A p \in Callers :
          (pc[p] = "return" /\ startResult[p] = "InitError") =>
              soundPlayer.initialized = 0

\* C39 witness: a call that acquired all three, ran a turn and was
\* cancelled has returned; another call whose audioStreamer.Open failed is
\* returning with the audio system still to be terminated.
C39_Witness ==
    \E p \in Callers, q \in Callers :
        /\ pc[p] = "idle" /\ startResult[p] = "Canceled"
        /\ "record" \in callLog[p]
        /\ pc[q] = "return" /\ startResult[q] = "InitError"
        /\ audioStreamer = [initialized |-> 1, open |-> 0]

\* The step in which p's Start call begins a turn (engine.go:120).
BeginsTurn(p) == pc[p] # "capture" /\ pc'[p] = "capture"

\* C40: a turn begins only at the loop's check and only with ctx not
\* cancelled; when ctx is cancelled at the check, Start leaves the loop with
\* the cancellation error.  A call whose ctx was cancelled before it reached
\* the loop therefore begins no turn at all.
C40_NoTurnAfterCancellation ==
    [][\A p \in Callers :
          /\ BeginsTurn(p) => pc[p] = "loop" /\ ~ctxDone[p]
          /\ (pc[p] = "loop" /\ pc'[p] # "loop" /\ ctxDone[p]) =>
                /\ pc'[p] = "return"
                /\ startResult'[p] = "Canceled"
                /\ callLog'[p] = callLog[p] \cup {"loop"}]_vars

\* C40 witness: a call has acquired its collaborators, found ctx cancelled
\* at its first check and returned the cancellation error with no turn
\* begun.
C40_Witness ==
    \E p \in Callers :
        /\ pc[p] = "idle"
        /\ startResult[p] = "Canceled"
        /\ callLog[p] = {"loop"}
        /\ nTurns = 0

\* C5 (as claimed): after Stop is called on a Running engine, the turn loop
\* exits and the engine becomes NotRunning.
C5_StopStopsEngine == stopPending ~> ~IsRunning

\* The message Stop reports for a failed Close (engine.go:326, 330).
CloseFailure(c) == "failed to close " \o c.client \o " client"

\* The Close calls of the last Stop that failed, in call order.
FailedCloses == SelectSeq(closeLog, LAMBDA c : c.failed)

\* C24: Stop calls Close on the STT client and then on the TTS client
\* whatever the first call returned; it returns nil exactly when no Close
\* failed, and otherwise one error holding the message of every failed
\* Close, in call order.
C24_StopReportsEveryFailure ==
    closeLog # <<>> =>
        /\ [i \in 1..Len(closeLog) |-> closeLog[i].client] = <<"STT", "TTS">>
        /\ stopResult = [i \in 1..Len(FailedCloses) |->
                            CloseFailure(FailedCloses[i])]
        /\ (stopResult = <<>> <=> \A i \in 1..Len(closeLog) :
                                     ~closeLog[i].failed)

\* C24 witness: both Close calls failed and Stop reported both.
C24_Witness ==
    /\ Len(closeLog) = 2
    /\ closeLog[1].failed /\ closeLog[2].failed
    /\ Len(stopResult) = 2

(***************************************************************************)
(* Claims about the reframing goroutine.                                   *)
(***************************************************************************)
\* The reframer returned because its input ended, not because playCtx was
\* cancelled.
ReframerFinished == rfPc = "done" /\ ~rfCancelled

\* Every frame handed to playback, wherever it is now.
DeliveredFrames ==
    { emitted[i] : i \in 1..Len(emitted) }
        \cup { playbackAudioData.buf[i] : i \in 1..Len(playbackAudioData.buf) }
        \cup { played[i] : i \in 1..Len(played) }

\* Number of bytes the synthesizer produced.
TotalLen == Len(Flatten(produced))

\* C6: every frame the reframer delivers to playback, the last one
\* included, has exactly chunkSize = FramesPerBuffer * 2 * OutputChannels
\* bytes, whatever the sizes of the input chunks.
C6_FramesHaveFrameSize == \A f \in DeliveredFrames : Len(f) = chunkSize

\* A padded last frame has been played after a full one.
C6_Witness ==
    /\ playerPc = "done"
    /\ Len(played) = 2
    /\ played[1][chunkSize] # 0
    /\ played[2][1] # 0
    /\ played[2][chunkSize] = 0

\* C7: when the synthesis stream has ended and the reframer was not
\* cancelled, the frames it emitted, concatenated, are the input chunks
\* concatenated in arrival order followed by fewer than chunkSize zero bytes.
C7_BytesPreserved ==
    ReframerFinished =>
        LET in == Flatten(produced)
            out == Flatten(emitted)
        IN /\ received = in
           /\ Len(out) >= Len(in)
           /\ SubSeq(out, 1, Len(in)) = in
           /\ Len(out) - Len(in) < chunkSize
           /\ \A i \in (Len(in) + 1)..Len(out) : out[i] = 0

\* Frame size 4, chunks [1,2,3],[4,5] give [1,2,3,4],[5,0,0,0].
C7_Witness ==
    /\ ReframerFinished
    /\ chunkSize = 4
    /\ produced = << <<1, 2, 3>>, <<4, 5>> >>
    /\ emitted = << <<1, 2, 3, 4>>, <<5, 0, 0, 0>> >>

\* C8: for input of total length L the reframer emits ceil(L / chunkSize)
\* frames: unpadded frames only when L is a multiple of chunkSize, one
\* zero-padded last frame and nothing after it otherwise, no frame when
\* L = 0 (a stream of only empty chunks included).
C8_FrameCount ==
    ReframerFinished =>
        LET L == TotalLen
            n == Len(emitted)
            rest == L % chunkSize
        IN /\ n = (L + chunkSize - 1) \div chunkSize
           /\ rest = 0 => Flatten(emitted) = Flatten(produced)
           /\ rest # 0 =>
                 /\ emitted[n][rest] # 0
                 /\ \A i \in (rest + 1)..chunkSize : emitted[n][i] = 0
           /\ L = 0 => emitted = <<>>

\* Three chunks, one of them empty, fill exactly two frames.
C8_Witness ==
    /\ ReframerFinished
    /\ Len(produced) = 3
    /\ \E i \in 1..3 : produced[i] = <<>>
    /\ TotalLen = 2 * chunkSize
    /\ Len(emitted) = 2

\* A stream of empty chunks only ends with no frame emitted.
C8_WitnessEmpty ==
    /\ ReframerFinished
    /\ Len(produced) = 2
    /\ TotalLen = 0
    /\ emitted = <<>>

\* C33: nothing is dropped between synthesis and playback.  Neither channel
\* ever holds more than its capacity; the chunks the synthesizer emitted
\* are, in emission order, the bytes the reframer received followed by the
\* chunks still queued; the frames the reframer emitted are, in order, the
\* frames played followed by the frames still queued; and when the reframer
\* and playback both ran to the end of their input, uncancelled, what was
\* played is every emitted byte once, in emission order, followed by the
\* padding of the last frame.
C33_NothingDroppedBeforePlayback ==
    /\ Len(ttsAudioData.buf) <= TtsChanCap
    /\ Len(playbackAudioData.buf) <= PlaybackChanCap
    /\ received \o Flatten(ttsAudioData.buf) = Flatten(produced)
    /\ played \o playbackAudioData.buf = emitted
    /\ (ReframerFinished /\ playerPc = "done") =>
          /\ played = emitted
          /\ SubSeq(Flatten(played), 1, TotalLen) = Flatten(produced)
          /\ \A i \in (TotalLen + 1)..Len(Flatten(played)) :
                Flatten(played)[i] = 0

\* C33 witness: no cancellation occurred, the synthesizer emitted all its
\* chunks, the last of them while the channel held a chunk already, and
\* playback has played them all.
C33_Witness ==
    /\ ~playCtxDone /\ ~ttsCtxDone
    /\ ReframerFinished /\ playerPc = "done"
    /\ Len(produced) = MaxChunks
    /\ \A i \in 1..Len(produced) : Len(produced[i]) > 0
    /\ Len(played) >= 2

\* C35 (as claimed): once playCtx is cancelled the reframer hands no
\* further frame to playback.
C35_NoFrameAfterCancellation == [][playCtxDone => emitted' = emitted]_vars

\* The chunk the reframer received last: the chunks the synthesizer sent
\* are received in order, the others are still queued.
ChunkInHand == produced[Len(produced) - Len(ttsAudioData.buf)]

\* C38: between chunk reads the remainder the reframer carries is shorter
\* than a frame, and while it cuts a chunk into frames its buffer holds at
\* most chunkSize - 1 bytes more than that chunk.  (At the end of the input
\* the remainder is padded to one frame, the last one.)
C38_RemainderShorterThanFrame ==
    /\ rfPc = "select" => Len(audioBuffer) < chunkSize
    /\ rfPc = "send" =>
          Len(audioBuffer) <= chunkSize - 1 + Len(ChunkInHand)
    /\ rfPc = "flush" => Len(audioBuffer) = chunkSize

\* C38 witness: a chunk longer than a frame arrived on a remainder of
\* chunkSize - 1 bytes, a frame was cut off it and more than a frame is
\* still buffered.
C38_Witness ==
    /\ rfPc = "send"
    /\ Len(ChunkInHand) > chunkSize
    /\ Len(emitted) = 1
    /\ Len(audioBuffer) = Len(ChunkInHand) - 1
    /\ Len(received) = chunkSize - 1 + Len(ChunkInHand)

(***************************************************************************)
(* Claims about the goroutines of a listening phase.                       *)
(***************************************************************************)
\* The chunks that left the capture goroutine through audioData, in the
\* order the recognition side sees them.
PassedOn == fed \o audioData.buf

DroppedChunks == { dropped[i].chunk : i \in 1..Len(dropped) }

\* C32: the capture goroutine is never held up by audioData.  With a chunk
\* in hand its select can always take a step; audioData never holds more
\* than its capacity; a chunk is dropped only when audioData is full, and
\* the dropped chunk is not queued; the chunks passed on keep the order in
\* which they were captured; and every captured chunk was passed on or
\* dropped, unless it is the one in hand or the one in hand when the
\* capture was cancelled.
C32_CaptureNeverBlocks ==
    /\ (micPc = "send" /\ ~panicked) => ENABLED MicSend
    /\ Len(audioData.buf) <= AudioChanCap
    /\ \A i \in 1..Len(dropped) :
          /\ Len(dropped[i].queue) = AudioChanCap
          /\ \A j \in 1..Len(PassedOn) : PassedOn[j] # dropped[i].chunk
    /\ \A i \in 1..Len(PassedOn), j \in 1..Len(PassedOn) :
          i < j => PassedOn[i] < PassedOn[j]
    /\ \A c \in 1..nCaptured :
          \/ c \in DroppedChunks
          \/ \E j \in 1..Len(PassedOn) : PassedOn[j] = c
          \/ c = nCaptured /\ micPc \in {"send", "returned", "closed"}

\* C32 witness: a chunk was dropped on a full audioData, and after
\* StreamRecognize took the chunk queued before it a later chunk was
\* queued.
C32_Witness ==
    /\ dropped # <<>>
    /\ fed # <<>>
    /\ audioData.buf # <<>>
    /\ fed[Len(fed)] < dropped[1].chunk
    /\ dropped[1].chunk < audioData.buf[1]

\* The goroutines started for the listening phase have all returned: the
\* one around StartCapture, the one around StreamRecognize and the
\* forwarding goroutine, if it was started.
ListenTasksEnded ==
    /\ micPc = "closed"
    /\ feedPc = "closed"
    /\ fwdPc \in {"idle", "done"}

\* C34 (as claimed): once captureCtx and sttCtx are cancelled (by the outer
\* ctx or by the return of captureUserInput on the silence timeout), every
\* goroutine started for the listening phase returns in the end.
C34_CancellationEndsEveryTask ==
    (captureCtxDone /\ sttCtxDone) ~> ListenTasksEnded

\* C37 (as claimed): no goroutine of the Engine or of its collaborators
\* closes a closed channel or sends on one: the close of sttResults after
\* StreamRecognize (engine.go:192), the forwarding goroutine's send and
\* deferred close (stt.go:238, 252) and the close of audioData after
\* SynthesizeToStreamWithContext (engine.go:251) never panic.
C37_NoCloseOrSendOnClosedChannel ==
    /\ feedPc # "panic"
    /\ fwdPc # "panic"
    /\ closerPc # "panic"
    /\ ~panicked

(***************************************************************************)
(* Claims about captureUserInput.                                          *)
(***************************************************************************)
RECURSIVE JoinFragments(_)
\* Every non-empty fragment followed by one space, in order.
JoinFragments(fs) ==
    IF fs = <<>> THEN <<>>
    ELSE (IF Head(fs) # <<>> THEN Head(fs) \o <<" ">> ELSE <<>>)
             \o JoinFragments(Tail(fs))

CaptureSucceeded == capPc = "returned" /\ capResult.err = "nil"

\* C9: the text captureUserInput returns on success is every non-empty
\* fragment it received, in arrival order, each followed by one space;
\* empty fragments add nothing.
C9_TextIsJoinedFragments ==
    CaptureSucceeded => capResult.text = JoinFragments(recvFrags)

\* Two non-empty fragments around an empty one were received and returned.
C9_Witness ==
    /\ CaptureSucceeded
    /\ recvFrags = << <<"a">>, <<>>, <<"b", "c">> >>
    /\ capResult.text = <<"a", " ", "b", "c", " ">>

\* C10: the silence countdown always runs for the full SilenceTimeout from
\* the last non-empty fragment received (from the start when there was
\* none), and a return by silence timeout happens when that countdown has
\* run out, not before.
C10_TimeoutAfterFullSilence ==
    /\ silenceTimer.active =>
          silenceTimer.deadline = lastAccept + config.SilenceTimeout
    /\ (capPc = "returned" /\ capResult.by = "timeout") =>
          /\ firedAt = lastAccept + config.SilenceTimeout
          /\ capResult.at >= firedAt

\* A fragment received at second 1 restarted the countdown; the timeout of
\* 3 seconds ended the phase at second 4.
C10_Witness ==
    /\ capPc = "returned"
    /\ capResult.by = "timeout"
    /\ config.SilenceTimeout = 3
    /\ recvFrags = << <<"a">> >>
    /\ lastAccept = 1
    /\ capResult.at = 4
    /\ capResult.text = <<"a", " ">>

\* C11: when the silence timeout closes the phase while a recognized
\* fragment is pending in sttResults, the fragment is accepted first: no
\* non-empty fragment is left behind by a return on the timer case.
C11_FinalFragmentAccepted ==
    (capPc = "returned" /\ capResult.by = "timeout") =>
        \A i \in 1..Len(capResult.left) : capResult.left[i] = <<>>

\* C12: a return on the timer case has cancelled captureCtx and sttCtx and
\* gives the accumulated text with a nil error, an empty text included.
C12_TimeoutCancelsAndReturnsText ==
    (capPc = "returned" /\ capResult.by = "timeout") =>
        /\ captureCtxDone
        /\ sttCtxDone
        /\ capResult.err = "nil"
        /\ capResult.text = transcription
        /\ capResult.text = JoinFragments(recvFrags)

\* The timer ended a phase in which nothing intelligible was received, while
\* the caller's ctx was live.
C12_Witness ==
    /\ capPc = "returned"
    /\ capResult.by = "timeout"
    /\ ~capCtxDone
    /\ recvFrags = << <<>> >>
    /\ capResult.text = <<>>
    /\ captureCtxDone /\ sttCtxDone

\* C13: once sttResults is closed and drained the loop can return at once,
\* whatever the state of silenceTimer, and that return gives the
\* accumulated text, made of every fragment sent, with a nil error.
C13_ClosedStreamReturnsAtOnce ==
    /\ (capPc = "select" /\ sttResults.closed /\ sttResults.buf = <<>>) =>
          ENABLED CaptureResultsClosed
    /\ (capPc = "returned" /\ capResult.by = "closed") =>
          /\ capResult.err = "nil"
          /\ capResult.text = JoinFragments(recvFrags)
          /\ capResult.left = <<>>

\* The stream closed after one fragment; the phase ended one second later,
\* two seconds before the timer was due, and the timer never fired.
C13_Witness ==
    /\ capPc = "returned"
    /\ capResult.by = "closed"
    /\ config.SilenceTimeout = 3
    /\ recvFrags = << <<"a">> >>
    /\ lastAccept = 0
    /\ capResult.at = 1
    /\ firedAt = NoTime
    /\ capResult.text = <<"a", " ">>

(***************************************************************************)
(* Claims about the turn.                                                  *)
(***************************************************************************)
\* What a turn can do beyond listening.
TurnWork == {"generate", "synthesize", "play", "append"}

\* The turn has added nothing to the history.
HistoryUntouched == Len(appended) = turnBase

C15_BlankTurnSkipped ==
    /\ turnOutcome = "skipped" =>
          /\ IsBlank(turnInput)
          /\ turnLog \cap TurnWork = {}
          /\ HistoryUntouched
          /\ turnPc \in {"loop", "returned"}
    /\ turnPc \in {"generate", "speak", "play", "record"} =>
          TrimSpace(turnInput) # <<>>

\* A turn that heard only blanks was skipped and the loop is back at its
\* head, the ctx live.
C15_Witness ==
    /\ turnOutcome = "skipped"
    /\ turnInput = <<" ", " ">>
    /\ turnPc = "loop"
    /\ ~turnCtxDone
    /\ nRounds = 2

\* C16: a turn whose reply generation failed starts no synthesis and no
\* playback and appends nothing; from the error the loop goes back to its
\* head when ctx is live and Start returns when ctx is cancelled.
C16_GenerateFailureAbandonsTurn ==
    /\ [](turnOutcome = "generateFailed" =>
             /\ turnLog \cap TurnWork = {"generate"}
             /\ HistoryUntouched
             /\ turnPc \in {"cycleErr", "loop", "returned"})
    /\ [][(turnPc = "cycleErr" /\ turnPc' # turnPc) =>
             turnPc' = (IF turnCtxDone THEN "returned" ELSE "loop")]_vars

\* After a failed generation the loop is back at its head, the ctx live.
C16_Witness ==
    /\ turnOutcome = "generateFailed"
    /\ turnPc = "loop"
    /\ ~turnCtxDone
    /\ turnLog = {"generate"}

\* The turn has gone through its generation step.
Generated ==
    \/ turnPc \in {"speak", "play", "record"}
    \/ turnOutcome \in {"generateFailed", "playFailed", "playCancelled",
                         "recorded"}

\* The texts of the pieces of a system message that carry the given label.
Labelled(msg, label) ==
    LET ls == SelectSeq(msg, LAMBDA l : l[1] = label)
    IN [i \in 1..Len(ls) |-> ls[i][2]]

\* C30: a turn whose utterance is not blank calls the reply generator
\* exactly once, with that utterance and a system message that lists the
\* entries the history holds at that moment, oldest first, each as a user
\* line directly followed by its assistant line, and ends with the
\* configured system prompt; with an empty history the message is the
\* system prompt alone.  A turn that ends before its generation step makes
\* no call.
C30_GeneratorSeesHistoryAndPrompt ==
    /\ Len(genCalls) = (IF Generated THEN 1 ELSE 0)
    /\ \A k \in 1..Len(genCalls) :
          LET msg == genCalls[k].systemMessage
              es == genCalls[k].history
              users == { i \in 1..Len(msg) : msg[i][1] = "User: " }
          IN /\ genCalls[k].userInput = turnInput
             /\ ~IsBlank(turnInput)
             /\ msg[Len(msg)] = <<"", config.SystemPrompt>>
             /\ Labelled(msg, "User: ") = [i \in 1..Len(es) |-> es[i].UserInput]
             /\ Labelled(msg, "Assistant: ")
                   = [i \in 1..Len(es) |-> es[i].AIResponse]
             /\ \A i \in users :
                   /\ i < Len(msg)
                   /\ msg[i + 1][1] = "Assistant: "
                   /\ Cardinality({ j \in users : j <= i })
                        = Cardinality({ j \in 1..i :
                                          msg[j][1] = "Assistant: " }) + 1
             /\ es = <<>> => msg = << <<"", config.SystemPrompt>> >>

\* C30 witness: the generator was called with a history of two entries
\* that hold different replies.
C30_Witness ==
    /\ Len(genCalls) = 1
    /\ Len(genCalls[1].history) = 2
    /\ genCalls[1].history[1].AIResponse # genCalls[1].history[2].AIResponse
    /\ genCalls[1].history = SliceElems(history)

\* C30 witness: the generator was called with an empty history.
C30_WitnessEmpty ==
    /\ Len(genCalls) = 1
    /\ genCalls[1].history = <<>>
    /\ genCalls[1].systemMessage = << <<"", config.SystemPrompt>> >>

\* C22 (as claimed): once the loop runs, Start returns only with the
\* cancellation error, and while ctx is not cancelled a turn that failed is
\* followed by another turn (as long as the behaviour has turns left).
C22_FailedTurnFollowedByTurn ==
    /\ [](loopResult # "none" => loopResult = "Canceled" /\ turnCtxDone)
    /\ ((turnPc = "cycleErr" /\ ~turnCtxDone)
            ~> (turnPc = "capture" \/ turnCtxDone \/ nRounds = MaxRounds))

\* C23 (as claimed): once ctx is cancelled, Start eventually returns the
\* cancellation error, whatever step the turn is in.
C23_CancellationEndsStart == turnCtxDone ~> loopResult = "Canceled"

\* C17: a turn whose synthesis or playback failed appends no history entry.
C17_FailedSpeechNotRecorded ==
    "append" \in turnLog =>
        /\ synthPc \notin {"failed", "error"}
        /\ playerPc # "failed"

\* C18: the history entry of a turn is appended only after the synthesizer
\* has returned and PlayStream has returned with playback complete.
C18_RecordAfterSpeechComplete ==
    (turnPc = "record" \/ "append" \in turnLog) =>
        /\ SynthTerminated
        /\ playerPc = "done"
        /\ ttsAudioData.closed
        /\ ttsAudioData.buf = <<>>

\* The synthesizer finished two chunks, playback played both, then the
\* turn was recorded.
C18_Witness ==
    /\ "append" \in turnLog
    /\ synthPc = "done"
    /\ playerPc = "done"
    /\ Len(produced) = 2
    /\ played = produced

\* Synthesis and playback at work at the same time in a turn.
C18_Concurrent ==
    /\ turnPc = "play"
    /\ synthPc = "stream"
    /\ playerPc = "select"
    /\ played # <<>>

\* C19: every byte sequence the Engine hands to playback has exactly
\* chunkSize bytes.
C19_EngineFramesHaveFrameSize ==
    \A i \in 1..Len(played) : Len(played[i]) = chunkSize

\* C20: a turn during whose synthesis/playback step the ctx was cancelled
\* appends no history entry.
C20_CancelledSpeechNotRecorded ==
    "cancelledWhileSpeaking" \in turnLog => "append" \notin turnLog

(***************************************************************************)
(* Claims about the history.                                               *)
(***************************************************************************)
\* The last n elements of a sequence (all of it when it is shorter).
LastN(s, n) == IF Len(s) <= n THEN s ELSE SubSeq(s, Len(s) - n + 1, Len(s))

\* C1: in every reachable state, after any sequence of addToHistory and
\* ClearHistory calls, the history holds at most MaxHistorySize entries.
C1_HistoryBounded == history.len <= config.MaxHistorySize

\* C1 witness: an append has evicted an entry and the history is full.
C1_Witness ==
    /\ Len(appended) > config.MaxHistorySize
    /\ history.len = config.MaxHistorySize

\* C2: after more appends than the capacity, with no clear in between,
\* GetHistory returns exactly the capacity most recently appended entries,
\* in the order they were appended.
C2_MostRecentKept ==
    Len(appended) > config.MaxHistorySize
        => GetHistoryBody(history) = LastN(appended, config.MaxHistorySize)

\* C2 witness: capacity 2, three appends A, B, C, and GetHistory gave [B, C].
C2_Witness ==
    /\ config.MaxHistorySize = 2
    /\ Len(appended) = 3
    /\ snapshot = <<appended[2], appended[3]>>
    /\ GetHistoryBody(history) = snapshot

\* C31: the entries are appended in the order in which the turns complete,
\* one entry for each turn that went through all its steps (capture, a
\* non-blank text, generation, speech, each returning without an error) and
\* none for any other turn: the entries carry increasing turn numbers, the
\* history holds the most recent of them in that order, the turn that has
\* just completed has appended exactly one entry, holding its utterance and
\* its reply, and a turn that has not completed has appended none.
C31_EntriesInCompletionOrder ==
    /\ \A i \in 1..Len(appended), j \in 1..Len(appended) :
          i < j => appended[i].Timestamp < appended[j].Timestamp
    /\ SliceElems(history) = LastN(appended, config.MaxHistorySize)
    /\ turnOutcome = "recorded" =>
          /\ Len(appended) = turnBase + 1
          /\ appended[Len(appended)] =
                [UserInput |-> turnInput, AIResponse |-> turnReply,
                 Timestamp |-> nRounds]
    /\ turnOutcome # "recorded" => Len(appended) = turnBase

\* C31 witness: the first and the third turn completed, the second did not;
\* the history holds the entry of the first turn, then that of the third.
C31_Witness ==
    /\ nRounds = 3
    /\ turnOutcome = "recorded"
    /\ Len(appended) = 2
    /\ appended[1].Timestamp = 1
    /\ appended[2].Timestamp = 3
    /\ appended[1].AIResponse # appended[2].AIResponse
    /\ SliceElems(history) = appended

\* C36 (as claimed): whatever EngineConfig NewEngine was given, the
\* engine's configuration has MaxHistorySize >= 1 and SilenceTimeout > 0,
\* and no addToHistory fails.
C36_EffectiveConfigValid ==
    /\ config.MaxHistorySize >= 1
    /\ config.SilenceTimeout > 0
    /\ ~panicked

\* C26: the sequence GetHistory returned holds the entries in the order
\* they were appended, and no later addToHistory or ClearHistory, evicting
\* or writing into the storage of e.history, changes it: the caller still
\* sees what it was given.
C26_SnapshotIndependent ==
    /\ [](histLog.gets > 0 => SliceElems(held) = histLog.at)
    /\ [][histLog'.gets # histLog.gets =>
            SliceElems(held') = LastN(appended, config.MaxHistorySize)]_vars

\* C26 witness: after a non-empty sequence was returned, the history was
\* cleared and an append evicted an entry and another one wrote into the
\* array e.history had when GetHistory was called.
C26_Witness ==
    /\ histLog.at # <<>>
    /\ histLog.clears > 0
    /\ histLog.evictions > 0
    /\ histLog.reused > 0
    /\ SliceElems(history) # histLog.at

\* C27 (as amended): a GetHistory call that follows another one with no
\* addToHistory and no ClearHistory in between returns an equal sequence.
C27_RepeatedSnapshotEqual ==
    [][(/\ histLog'.gets = histLog.gets + 1
        /\ histLog.gets > 0
        /\ histLog.appends = 0
        /\ histLog.clears = 0) => snapshot' = snapshot]_vars

\* C27 witness: GetHistory has just returned a non-empty sequence twice in
\* a row.
C27_Witness ==
    /\ histLog.gets = 2
    /\ histLog.appends = 0 /\ histLog.clears = 0
    /\ snapshot # <<>>
    /\ nOps = 3

\* C27 (as claimed): a GetHistory call that follows another one with no
\* addToHistory in between returns an equal sequence.
C27_Original ==
    [][(/\ histLog'.gets = histLog.gets + 1
        /\ histLog.gets > 0
        /\ histLog.appends = 0) => snapshot' = snapshot]_vars

\* C28: ClearHistory leaves no entry, so that GetHistory right after it
\* returns the empty sequence, and leaves the configuration alone: once the
\* history has been cleared it still holds at most MaxHistorySize entries,
\* the most recent ones appended since, in the order they were appended.
C28_ClearKeepsCapacity ==
    /\ [](histLog.cleared > 0 =>
            /\ history.len <= config.MaxHistorySize
            /\ GetHistoryBody(history) =
                  LastN(appended, config.MaxHistorySize))
    /\ [][histLog'.cleared # histLog.cleared =>
            /\ GetHistoryBody(history') = <<>>
            /\ config' = config]_vars

\* C28 witness: a non-empty history was cleared and an append made after
\* that has evicted an entry.
C28_Witness ==
    /\ histLog.cleared > 0
    /\ Len(appended) > config.MaxHistorySize
    /\ history.len = config.MaxHistorySize
    /\ nOps > Len(appended) + 1

\* C29: with GetHistory and buildSystemMessage running concurrently with
\* the goroutine that calls addToHistory, every read gives the history as
\* it was before or after a whole addToHistory, one that was current while
\* the read ran: never an entry appended but not yet evicted for, never
\* more than MaxHistorySize entries, never a zero entry.
C29_ReadsSeeWholeAppends ==
    \A r \in Readers :
        rResult[r] # NoRead =>
            /\ rResult[r].entries \in rWindow[r]
            /\ Len(rResult[r].entries) <= config.MaxHistorySize
            /\ \A i \in 1..Len(rResult[r].entries) :
                  rResult[r].entries[i] # NoEntry

\* C29 witness: a read that began before an evicting addToHistory took the
\* lock has returned the history as that call left it, while the writer is
\* inside its next call.
C29_Witness ==
    \E r \in Readers :
        /\ rResult[r] # NoRead
        /\ rPc[r] = "idle"
        /\ Cardinality(rWindow[r]) > 1
        /\ Len(appended) > config.MaxHistorySize
        /\ Len(rResult[r].entries) = config.MaxHistorySize
        /\ wPc \in {"lock", "append", "trim", "unlock"}

====
